---- MODULE Spec2Model ----
(***************************************************************************)
(* Model of the KVCA worker's job engine: the job_lock lease               *)
(* (SupabaseStorage.acquire_job_lock / release_job_lock), one enrolment    *)
(* sync run (EnrolmentSyncService.sync) and the outbox dispatcher          *)
(* (SupabaseStorage.dispatch_sheet_outbox and its helpers), the record     *)
(* upsert with its alerts (upsert_source_records), the token cache         *)
(* (KvcaAuthManager), the client's retry on 401 (KvcaClient), the          *)
(* traversal of a sync request with its HTTP endpoint, and the pure        *)
(* classification functions of the failure and severity alerts.            *)
(*                                                                         *)
(* Every request to the backing store is one atomic step; a coroutine can  *)
(* be overtaken by any other coroutine or worker process between two       *)
(* awaits.  A store request either is applied ("ok") or is answered with   *)
(* an error status and applied not at all ("error").                       *)
(***************************************************************************)
EXTENDS Integers, Sequences, FiniteSets, TLC

VARIABLES
    clock,          \* wall clock, datetime.now(UTC), in ticks
    job_lock,       \* table job_lock: the rows for job_name "enrolment_sync" (unique)
    lock_version,   \* history: number of writes that changed job_lock so far
    run_log,        \* table run_log: the row each invocation started, by invocation
    pc,             \* where each caller stands
    now,            \* acquire_job_lock's local `now`
    lock_acquired,  \* acquire_job_lock's result: "none" (no result yet), "True", "False"
    exc,            \* the exception a caller is propagating, "none" when none
    acq,            \* history of the caller's acquire_job_lock call
    rel,            \* history of the caller's release_job_lock call
    run,            \* history of the caller's sync run
    sheet_outbox,   \* table sheet_outbox, by id
    notification_outbox,  \* table notification_outbox, in insertion order
    pass,           \* each dispatcher's current dispatch pass
    source_record,  \* table source_record: the stored payload hash, by key
    snapshot,       \* table snapshot, in insertion order
    alert,          \* table alert, in insertion order
    upsert,         \* each writer's current call into the persistence engine
    auth,           \* the KVCAAuthManager: _token, _lock and the logins made
    caller,         \* each coroutine's position in _get_valid_token
    retry,          \* a retry configuration and an attempt count
    request,        \* the KVCAClient: its setting and each _request_json call
    traversal,      \* one sync request: the source's answers and the run's locals
    applied         \* a pure function's argument and its result

leaseVars == <<clock, job_lock, lock_version, pc, now, lock_acquired, exc, acq, rel>>
syncVars == <<run_log, run>>
outboxVars == <<sheet_outbox, notification_outbox, pass>>
persistVars == <<source_record, snapshot, alert, upsert>>
authVars == <<auth, caller>>
serviceVars == <<request, traversal, applied>>
otherVars == <<persistVars, authVars, retry, serviceVars>>
vars == <<leaseVars, syncVars, outboxVars, otherVars>>

----------------------------------------------------------------------------
(* Bounds and parameters *)

\* Last tick of the clock.
MaxTime == 3

\* settings.job_lock_ttl_seconds, in ticks.
LockTtl == 1

\* Direct callers of the lease interface, one worker process each.
LeaseCallers == {"A", "B", "C"}

\* Two concurrent sync invocations: a1 and a2 are two requests served by the
\* same worker process, b1 is a request served by another worker process.
InvocationSets == {{"a1", "a2"}, {"a1", "b1"}}

\* self._lock_owner = f"worker-{uuid4()}": one identity per process.
lock_owner(i) ==
    CASE i \in {"A", "a1", "a2"} -> "worker-A"
      [] i \in {"B", "b1"} -> "worker-B"
      [] OTHER -> "worker-C"

StoreOutcomes == {"ok", "error"}

Max(a, b) == IF a >= b THEN a ELSE b

----------------------------------------------------------------------------
(* acquire_job_lock / release_job_lock *)

\* expires = _utc_after(seconds=max(1, ttl_seconds))
Expires(t, ttl) == t + Max(1, ttl)

\* The payload of the insert.
LockRow(owner, t, ttl) ==
    [locked_by |-> owner, locked_at |-> t, lock_expires_at |-> Expires(t, ttl)]

\* Mutant: the takeover filter without the expiry predicate.
TakeoverMatch_NoExpiry(t) == job_lock

\* Mutant: the takeover filter comparing the wrong way round (gt for lt).
TakeoverMatch_Gt(t) == {r \in job_lock : r.lock_expires_at > t}

\* job_name=eq.<job>&lock_expires_at=lt.<now>
TakeoverMatch(t) == {r \in job_lock : r.lock_expires_at < t}

\* job_name=eq.<job>&locked_by=eq.<owner>
OwnerMatch(owner) == {r \in job_lock : r.locked_by = owner}

NoAcquire == [writes |-> <<>>, foreign_live |-> TRUE]
NoRelease == [outcome |-> "none", before |-> {}, after |-> {}]
NoRun == [entered |-> FALSE, body |-> "none", effects |-> {}, steps |-> <<>>,
          persist_calls |-> 0, finish_calls |-> 0,
          created_alerts |-> 0, failure_candidates |-> 0, failure_recent |-> FALSE,
          failure_alert_count |-> 0,
          finalize_store_failed |-> FALSE]

\* The lease row is held by another owner and has not expired at the caller's `now`.
ForeignLive(i) ==
    \E r \in job_lock : r.locked_by # lock_owner(i) /\ r.lock_expires_at > now[i]

\* History of one conditional write of acquire_job_lock: what it found, whether
\* it affected a row, and what it left.
Tried(i, op, hit, after) ==
    [writes |-> Append(acq[i].writes,
                       [op |-> op, hit |-> hit, before |-> job_lock,
                        version |-> lock_version, after |-> after]),
     foreign_live |-> acq[i].foreign_live /\ ForeignLive(i)]

\* acquire_job_lock raises (raise_for_status).
AcquireRaises(i) ==
    /\ pc' = [pc EXCEPT ![i] = "raised"]
    /\ exc' = [exc EXCEPT ![i] = "store_error"]
    /\ UNCHANGED <<job_lock, lock_version, lock_acquired, acq>>

\* Mutant: acquire_job_lock answers True whatever the last write affected.
AcquireReturns_AlwaysTrue(i, result) ==
    /\ pc' = [pc EXCEPT ![i] = "acquire_returned"]
    /\ lock_acquired' = [lock_acquired EXCEPT ![i] = "True"]
    /\ exc' = exc

\* acquire_job_lock returns `result`.
AcquireReturns(i, result) ==
    /\ pc' = [pc EXCEPT ![i] = "acquire_returned"]
    /\ lock_acquired' = [lock_acquired EXCEPT ![i] = IF result THEN "True" ELSE "False"]
    /\ exc' = exc

\* 1) try fresh insert
AcquireInsert(i) ==
    /\ pc[i] = "insert"
    /\ \E outcome \in StoreOutcomes :
        IF job_lock # {}
        THEN \* 409: the unique job_name exists
             /\ pc' = [pc EXCEPT ![i] = "takeover"]
             /\ acq' = [acq EXCEPT ![i] = Tried(i, "insert", FALSE, job_lock)]
             /\ UNCHANGED <<job_lock, lock_version, lock_acquired, exc>>
        ELSE IF outcome = "error"
        THEN AcquireRaises(i)
        ELSE /\ job_lock' = {LockRow(lock_owner(i), now[i], LockTtl)}
             /\ lock_version' = lock_version + 1
             /\ acq' = [acq EXCEPT ![i] = Tried(i, "insert", TRUE, job_lock')]
             /\ AcquireReturns(i, TRUE)
    /\ UNCHANGED <<clock, now, rel, syncVars>>
    /\ UNCHANGED <<outboxVars, otherVars>>

\* 2) if existing lock is expired, take over
AcquireTakeover(i) ==
    /\ pc[i] = "takeover"
    /\ \E outcome \in StoreOutcomes :
        IF outcome = "error"
        THEN AcquireRaises(i)
        ELSE IF TakeoverMatch(now[i]) # {}
        THEN /\ job_lock' = (job_lock \ TakeoverMatch(now[i]))
                            \cup {LockRow(lock_owner(i), now[i], LockTtl)}
             /\ lock_version' = lock_version + 1
             /\ acq' = [acq EXCEPT ![i] = Tried(i, "takeover", TRUE, job_lock')]
             /\ AcquireReturns(i, TRUE)
        ELSE /\ pc' = [pc EXCEPT ![i] = "refresh"]
             /\ acq' = [acq EXCEPT ![i] = Tried(i, "takeover", FALSE, job_lock)]
             /\ UNCHANGED <<job_lock, lock_version, lock_acquired, exc>>
    /\ UNCHANGED <<clock, now, rel, syncVars>>
    /\ UNCHANGED <<outboxVars, otherVars>>

\* 3) if already owned by this worker, just refresh ttl
AcquireRefresh(i) ==
    /\ pc[i] = "refresh"
    /\ \E outcome \in StoreOutcomes :
        IF outcome = "error"
        THEN AcquireRaises(i)
        ELSE IF OwnerMatch(lock_owner(i)) # {}
        THEN /\ job_lock' = (job_lock \ OwnerMatch(lock_owner(i)))
                            \cup {LockRow(lock_owner(i), now[i], LockTtl)}
             /\ lock_version' = lock_version + 1
             /\ acq' = [acq EXCEPT ![i] = Tried(i, "refresh", TRUE, job_lock')]
             /\ AcquireReturns(i, TRUE)
        ELSE /\ acq' = [acq EXCEPT ![i] = Tried(i, "refresh", FALSE, job_lock)]
             /\ AcquireReturns(i, FALSE)
             /\ UNCHANGED <<job_lock, lock_version>>
    /\ UNCHANGED <<clock, now, rel, syncVars>>
    /\ UNCHANGED <<outboxVars, otherVars>>

\* Mutant: the delete without the locked_by predicate.
ReleaseMatch_AnyOwner(owner) == job_lock

\* Mutant: the delete sweeps the rows whose lease has expired, whoever owns them.
ReleaseMatch_Expired(owner) ==
    {r \in job_lock : r.locked_by = owner \/ r.lock_expires_at < clock}

\* DELETE /job_lock?job_name=eq.<job>&locked_by=eq.<owner>
ReleaseMatch(owner) == OwnerMatch(owner)

release_job_lock(i) ==
    /\ pc[i] = "release"
    /\ \E outcome \in StoreOutcomes :
        /\ job_lock' = IF outcome = "ok"
                       THEN job_lock \ ReleaseMatch(lock_owner(i))
                       ELSE job_lock
        /\ lock_version' = IF job_lock' # job_lock THEN lock_version + 1 ELSE lock_version
        /\ rel' = [rel EXCEPT ![i] = [outcome |-> outcome, before |-> job_lock,
                                      after |-> job_lock']]
        /\ exc' = [exc EXCEPT ![i] = IF outcome = "error" THEN "store_error" ELSE @]
        /\ pc' = [pc EXCEPT ![i] = IF exc'[i] = "none" THEN "returned" ELSE "raised"]
        /\ run' = [run EXCEPT ![i].steps = Append(@, "release"),
                              ![i].finalize_store_failed = @ \/ outcome = "error"]
    /\ UNCHANGED <<clock, now, lock_acquired, acq, run_log>>
    /\ UNCHANGED <<outboxVars, otherVars>>

\* Time passes.
Tick ==
    /\ clock < MaxTime
    /\ clock' = clock + 1
    /\ UNCHANGED <<job_lock, lock_version, pc, now, lock_acquired, exc, acq, rel, syncVars>>
    /\ UNCHANGED <<outboxVars, otherVars>>

----------------------------------------------------------------------------
(* Direct use of the lease interface by one caller per worker process *)

\* acquire_job_lock(job_name, ttl_seconds) is called: now = _utc_now().
AcquireCall(i) ==
    /\ pc[i] = "idle"
    /\ pc' = [pc EXCEPT ![i] = "insert"]
    /\ now' = [now EXCEPT ![i] = clock]
    /\ UNCHANGED <<clock, job_lock, lock_version, lock_acquired, exc, acq, rel, syncVars>>
    /\ UNCHANGED <<outboxVars, otherVars>>

\* release_job_lock(job_name) is called, whether or not the caller holds the lease.
ReleaseCall(i) ==
    /\ pc[i] \in {"idle", "acquire_returned"}
    /\ pc' = [pc EXCEPT ![i] = "release"]
    /\ UNCHANGED <<clock, job_lock, lock_version, now, lock_acquired, exc, acq, rel, syncVars>>
    /\ UNCHANGED <<outboxVars, otherVars>>

InitCallers(P) ==
    /\ clock = 0
    /\ job_lock = {}
    /\ lock_version = 0
    /\ run_log = [i \in P |-> [status |-> "none", error_message |-> "none", created_alerts |-> 0]]
    /\ pc = [i \in P |-> "idle"]
    /\ now = [i \in P |-> 0]
    /\ lock_acquired = [i \in P |-> "none"]
    /\ exc = [i \in P |-> "none"]
    /\ acq = [i \in P |-> NoAcquire]
    /\ rel = [i \in P |-> NoRelease]
    /\ run = [i \in P |-> NoRun]

\* No stored records, no call into the persistence engine.
NoPersist ==
    /\ source_record = <<>>
    /\ snapshot = <<>>
    /\ alert = <<>>
    /\ upsert = <<>>

\* No coroutine asks for a token.
NoAuth ==
    /\ auth = <<>>
    /\ caller = <<>>

NoRetry == retry = <<>>

\* No client request, no sync request, no function applied.
NoService ==
    /\ request = <<>>
    /\ traversal = <<>>
    /\ applied = <<>>

\* No outbox rows and no dispatch pass.
NoOutbox ==
    /\ sheet_outbox = <<>>
    /\ notification_outbox = <<>>
    /\ pass = <<>>
    /\ NoPersist
    /\ NoAuth
    /\ NoRetry
    /\ NoService

InitLease == InitCallers(LeaseCallers) /\ NoOutbox

NextLease ==
    \/ Tick
    \/ \E i \in DOMAIN pc : AcquireCall(i)
    \/ \E i \in DOMAIN pc : AcquireInsert(i)
    \/ \E i \in DOMAIN pc : AcquireTakeover(i)
    \/ \E i \in DOMAIN pc : AcquireRefresh(i)
    \/ \E i \in DOMAIN pc : ReleaseCall(i)
    \/ \E i \in DOMAIN pc : release_job_lock(i)

SpecLease == InitLease /\ [][NextLease]_vars

----------------------------------------------------------------------------
(* EnrolmentSyncService.sync *)

\* finish_run(self, job_name, run_id, success, summary, error_message=None):
\* the parameters that have no default.
FinishRunRequired == {"job_name", "run_id", "success", "summary"}

\* The keyword arguments sync passes in both of its calls to finish_run.
SyncFinishRunKeywords == {"run_id", "success", "summary", "error_message"}

\* A call binds only if every parameter without a default gets an argument;
\* otherwise the call raises TypeError before the body runs.
CallBinds(required, given) == required \subseteq given

\* sync(...) is called: acquire_job_lock reads `now` and posts the insert.
SyncCall(i) ==
    /\ pc[i] = "idle"
    /\ pc' = [pc EXCEPT ![i] = "insert"]
    /\ now' = [now EXCEPT ![i] = clock]
    /\ UNCHANGED <<clock, job_lock, lock_version, lock_acquired, exc, acq, rel, syncVars>>
    /\ UNCHANGED <<outboxVars, otherVars>>

\* Mutant: sync goes on without looking at acquire_job_lock's result.
SyncLockCheck_Ignored(i) ==
    /\ pc[i] = "acquire_returned"
    /\ pc' = [pc EXCEPT ![i] = "start_run"]
    /\ UNCHANGED <<clock, job_lock, lock_version, now, lock_acquired, exc, acq, rel, syncVars>>
    /\ UNCHANGED <<outboxVars, otherVars>>

\* if not lock_acquired: raise RuntimeError("Job is already running (job_lock active).")
SyncLockCheck(i) ==
    /\ pc[i] = "acquire_returned"
    /\ IF lock_acquired[i] = "True"
       THEN pc' = [pc EXCEPT ![i] = "start_run"] /\ exc' = exc
       ELSE pc' = [pc EXCEPT ![i] = "raised"] /\ exc' = [exc EXCEPT ![i] = "lock_conflict"]
    /\ UNCHANGED <<clock, job_lock, lock_version, now, lock_acquired, acq, rel, syncVars>>
    /\ UNCHANGED <<outboxVars, otherVars>>

\* run_id = await self._storage.start_run(...), before the try block.
start_run(i) ==
    /\ pc[i] = "start_run"
    /\ \E outcome \in StoreOutcomes :
        IF outcome = "ok"
        THEN /\ run_log' = [run_log EXCEPT ![i] =
                    [status |-> "RUNNING", error_message |-> "none",
                     created_alerts |-> 0]]
             /\ run' = [run EXCEPT ![i].entered = TRUE,
                                   ![i].effects = @ \cup {"run_log"}]
             /\ pc' = [pc EXCEPT ![i] = "traverse"]
             /\ exc' = exc
        ELSE /\ pc' = [pc EXCEPT ![i] = "raised"]
             /\ exc' = [exc EXCEPT ![i] = "store_error"]
             /\ UNCHANGED <<run_log, run>>
    /\ UNCHANGED <<clock, job_lock, lock_version, now, lock_acquired, acq, rel>>
    /\ UNCHANGED <<outboxVars, otherVars>>

\* except Exception as exc: the handler is entered with exception e.
Except(i, e) ==
    /\ pc' = [pc EXCEPT ![i] = "except"]
    /\ exc' = [exc EXCEPT ![i] = e]

\* Mutant: the release is not in a finally clause, so that an exit with a
\* pending exception leaves sync without it.
Finally_OnReturnOnly(i, e) ==
    /\ pc' = [pc EXCEPT ![i] = IF e = "none" THEN "release" ELSE "raised"]
    /\ exc' = [exc EXCEPT ![i] = e]

\* finally: await self._storage.release_job_lock(job_name=job_name), entered
\* while exception e ("none" on the return path) is pending.
Finally(i, e) ==
    /\ pc' = [pc EXCEPT ![i] = "release"]
    /\ exc' = [exc EXCEPT ![i] = e]

\* The traversal of categories, courses, status rows and user details
\* (_resolve_categories and the nested loops): it calls the source API and
\* either builds the batch or lets a fatal source error escape.
Traverse(i) ==
    /\ pc[i] = "traverse"
    /\ \E outcome \in {"ok", "source_error"} :
        /\ IF outcome = "ok"
           THEN pc' = [pc EXCEPT ![i] = "upsert"] /\ exc' = exc
           ELSE Except(i, outcome)
        /\ run' = [run EXCEPT ![i].effects = @ \cup {"source_api"},
                              ![i].body = IF outcome = "ok" THEN @ ELSE outcome]
    /\ UNCHANGED <<clock, job_lock, lock_version, now, lock_acquired, acq, rel, run_log>>
    /\ UNCHANGED <<outboxVars, otherVars>>

\* persist_result = await self._storage.upsert_source_records(source_records)
upsert_source_records(i) ==
    /\ pc[i] = "upsert"
    /\ \E outcome \in {"ok", "persist_error"} :
        IF outcome = "ok"
        THEN /\ pc' = [pc EXCEPT ![i] = "finish_success"]
             /\ exc' = exc
             /\ \E alert_count \in 0..1 :
                run' = [run EXCEPT ![i].body = "ok",
                                   ![i].created_alerts = alert_count,
                                   ![i].persist_calls = @ + 1,
                                   ![i].effects = @ \cup {"source_record", "snapshot",
                                                          "alert", "sheet_outbox"}]
        ELSE /\ Except(i, outcome)
             /\ run' = [run EXCEPT ![i].body = outcome, ![i].persist_calls = @ + 1]
    /\ UNCHANGED <<clock, job_lock, lock_version, now, lock_acquired, acq, rel, run_log>>
    /\ UNCHANGED <<outboxVars, otherVars>>

\* The body of finish_run once the call is bound.  On failure one FAILED alert
\* is built by _build_run_failure_alert and kept by the cooldown filter unless
\* an alert of its key is recent; a kept one is inserted with its sheet_outbox
\* row and counted.  Then the run_log row is patched, created_alerts being the
\* summary's plus that count.
finish_run(i, success, error_message, outcome) ==
    \E recent \in IF success THEN {FALSE} ELSE BOOLEAN :
        LET failure_alert_count == IF success \/ recent THEN 0 ELSE 1
            built == [run EXCEPT ![i].finish_calls = @ + 1,
                                 ![i].failure_candidates =
                                     IF success THEN @ ELSE @ + 1,
                                 ![i].failure_recent = recent]
        IN  IF outcome = "ok"
            THEN /\ run_log' = [run_log EXCEPT ![i] =
                        [status |-> IF success THEN "SUCCESS" ELSE "FAILED",
                         error_message |-> error_message,
                         created_alerts |->
                             run[i].created_alerts + failure_alert_count]]
                 /\ run' = [built EXCEPT
                        ![i].steps = Append(@, "finish_run"),
                        ![i].failure_alert_count = failure_alert_count,
                        ![i].effects =
                            IF failure_alert_count = 0 THEN @
                            ELSE @ \cup {"alert", "sheet_outbox", "failure_alert"}]
            ELSE /\ run_log' = run_log
                 /\ run' = [built EXCEPT ![i].finalize_store_failed = TRUE]

\* await self._storage.finish_run(run_id=..., success=True, ...); return summary
FinishSuccess(i) ==
    /\ pc[i] = "finish_success"
    /\ IF CallBinds(FinishRunRequired, SyncFinishRunKeywords)
       THEN \E outcome \in StoreOutcomes :
               /\ finish_run(i, TRUE, "none", outcome)
               /\ IF outcome = "ok" THEN Finally(i, "none") ELSE Except(i, "store_error")
       ELSE /\ Except(i, "type_error")
            /\ run' = [run EXCEPT ![i].finish_calls = @ + 1]
            /\ UNCHANGED run_log
    /\ UNCHANGED <<clock, job_lock, lock_version, now, lock_acquired, acq, rel>>
    /\ UNCHANGED <<outboxVars, otherVars>>

\* except Exception as exc: await self._storage.finish_run(run_id=...,
\* success=False, ..., error_message=str(exc)); raise
FinishFailed(i) ==
    /\ pc[i] = "except"
    /\ IF CallBinds(FinishRunRequired, SyncFinishRunKeywords)
       THEN \E outcome \in StoreOutcomes :
               /\ finish_run(i, FALSE, exc[i], outcome)
               /\ Finally(i, IF outcome = "ok" THEN exc[i] ELSE "store_error")
       ELSE /\ Finally(i, "type_error")
            /\ run' = [run EXCEPT ![i].finish_calls = @ + 1]
            /\ UNCHANGED run_log
    /\ UNCHANGED <<clock, job_lock, lock_version, now, lock_acquired, acq, rel>>
    /\ UNCHANGED <<outboxVars, otherVars>>

Init == NoOutbox /\ \E P \in InvocationSets : InitCallers(P)

Next ==
    \/ Tick
    \/ \E i \in DOMAIN pc : SyncCall(i)
    \/ \E i \in DOMAIN pc : AcquireInsert(i)
    \/ \E i \in DOMAIN pc : AcquireTakeover(i)
    \/ \E i \in DOMAIN pc : AcquireRefresh(i)
    \/ \E i \in DOMAIN pc : SyncLockCheck(i)
    \/ \E i \in DOMAIN pc : start_run(i)
    \/ \E i \in DOMAIN pc : Traverse(i)
    \/ \E i \in DOMAIN pc : upsert_source_records(i)
    \/ \E i \in DOMAIN pc : FinishSuccess(i)
    \/ \E i \in DOMAIN pc : FinishFailed(i)
    \/ \E i \in DOMAIN pc : release_job_lock(i)

Spec == Init /\ [][Next]_vars

----------------------------------------------------------------------------
(* Outbox dispatcher: dispatch_sheet_outbox / dispatch_notification_outbox *)

\* Coroutines that run dispatch passes, in any worker process.
Dispatchers == {"d1", "d2"}

OutboxTables == {"sheet_outbox", "notification_outbox"}

\* Rows enqueued in sheet_outbox by earlier sync runs.
SheetRows == 1

\* settings.sheet_dispatch_batch_size / settings.noti_dispatch_batch_size.
BatchSize == 1

\* settings.outbox_retry_base_seconds and settings.outbox_retry_max_seconds,
\* in ticks.
RetryBase == 1
RetryMax == 2

Min(a, b) == IF a <= b THEN a ELSE b

RECURSIVE Pow2(_)
Pow2(n) == IF n <= 0 THEN 1 ELSE 2 * Pow2(n - 1)

\* self._outbox_retry_base_seconds, self._outbox_retry_max_seconds
outbox_retry_base_seconds == Max(1, RetryBase)
outbox_retry_max_seconds == Max(outbox_retry_base_seconds, RetryMax)

\* A row as the database creates it: status PENDING, retry_count 0,
\* next_retry_at null.
NewSheetRow(key, t) ==
    [row_key |-> key, status |-> "PENDING", retry_count |-> 0,
     retry_scheduled |-> FALSE, next_retry_at |-> 0, created_at |-> t,
     updated_at |-> t]

NewNotificationRow(key, t) ==
    [source_id |-> key, status |-> "PENDING", retry_count |-> 0,
     retry_scheduled |-> FALSE, next_retry_at |-> 0, created_at |-> t,
     updated_at |-> t]

OutboxDispatchResult ==
    [picked |-> 0, processed |-> 0, sent |-> 0, failed |-> 0, skipped |-> 0,
     notification_enqueued |-> 0]

NoPass ==
    [pc |-> "idle", table |-> "sheet_outbox", limit |-> 0, rows |-> <<>>,
     pos |-> 0, result |-> OutboxDispatchResult, claimed |-> {},
     peers |-> {}, error |-> "none", marked |-> {}]

Table(t) == IF t = "sheet_outbox" THEN sheet_outbox ELSE notification_outbox

\* The row a pass is working on, as its candidate list holds it.
Row(d) == pass[d].rows[pass[d].pos]

\* A pass that has read its candidate list and has not finished.
InLoop(d) ==
    pass[d].pc \in {"claim", "deliver", "notification_exists",
                    "notification_insert", "mark_sent", "mark_failed"}

\* What a select returns for one row of a table.
Selected(t, id) ==
    [id |-> id, status |-> Table(t)[id].status,
     retry_count |-> Table(t)[id].retry_count,
     row_key |-> IF t = "sheet_outbox" THEN Table(t)[id].row_key
                 ELSE Table(t)[id].source_id]

\* All the orders in which the database may return the rows ids: ascending
\* by the column ord, rows with equal ord in any order.
Ordered(ids, ord) ==
    {s \in [1..Cardinality(ids) -> ids] :
        /\ \A i, j \in 1..Cardinality(ids) : i # j => s[i] # s[j]
        /\ \A i, j \in 1..Cardinality(ids) : i < j => ord[s[i]] <= ord[s[j]]}

Take_All(s, n) == s

\* rows[:n]
Take(s, n) == SubSeq(s, 1, Min(n, Len(s)))

RECURSIVE Dedup(_, _)
Dedup(s, seen) ==
    IF s = <<>> THEN <<>>
    ELSE IF Head(s).id \in seen THEN Dedup(Tail(s), seen)
    ELSE <<Head(s)>> \o Dedup(Tail(s), seen \cup {Head(s).id})

\* _query_outbox_rows: the results the store may answer with.
QueryRows(t, ids, ord, limit) ==
    IF limit <= 0 THEN {<<>>}
    ELSE {Take([i \in 1..Len(s) |-> Selected(t, s[i])], limit) :
            s \in Ordered(ids, ord)}

PendingIds(t) == {id \in DOMAIN Table(t) : Table(t)[id].status = "PENDING"}

FailedNullIds(t) ==
    {id \in DOMAIN Table(t) :
        /\ Table(t)[id].status = "FAILED"
        /\ ~Table(t)[id].retry_scheduled}

FailedDueIds_AnyTime(t, t_now) ==
    {id \in DOMAIN Table(t) :
        /\ Table(t)[id].status = "FAILED"
        /\ Table(t)[id].retry_scheduled}

FailedDueIds(t, t_now) ==
    {id \in DOMAIN Table(t) :
        /\ Table(t)[id].status = "FAILED"
        /\ Table(t)[id].retry_scheduled
        /\ Table(t)[id].next_retry_at <= t_now}

\* Head of the for loop: the next candidate, or the return of the pass.
LoopAt(p, n) ==
    [p EXCEPT !.pos = n,
              !.pc = IF n <= Len(p.rows) THEN "claim" ELSE "done"]

\* The end of _fetch_outbox_candidates and the start of the loop.
Fetched(p, rows) ==
    LET deduped == Take(Dedup(rows, {}), p.limit)
    IN  LoopAt([p EXCEPT !.rows = deduped,
                         !.result.picked = Len(deduped)], 1)

\* Passes on the same rows that are in their loops at the same time overlap.
Meet(d, p) ==
    LET others == {e \in DOMAIN pass \ {d} :
                      InLoop(e) /\ pass[e].table = p.table}
    IN  [e \in DOMAIN pass |->
            IF e = d THEN [p EXCEPT !.peers = IF p.pc = "claim" THEN others ELSE {}]
            ELSE IF e \in others /\ p.pc = "claim"
                 THEN [pass[e] EXCEPT !.peers = @ \cup {d}]
                 ELSE pass[e]]

UpdateRow(t, id, row) ==
    /\ sheet_outbox' =
          IF t = "sheet_outbox" THEN [sheet_outbox EXCEPT ![id] = row]
          ELSE sheet_outbox
    /\ notification_outbox' =
          IF t = "notification_outbox"
          THEN [notification_outbox EXCEPT ![id] = row]
          ELSE notification_outbox

OutboxFrame == UNCHANGED <<leaseVars, syncVars, otherVars>>

\* dispatch_*_outbox: limit = max(1, batch_size or self._*_dispatch_batch_size)
DispatchCall(d, t) ==
    /\ pass[d].pc = "idle"
    /\ pass' = [pass EXCEPT ![d] =
                  [NoPass EXCEPT !.pc = "query_pending", !.table = t,
                                 !.limit = Max(1, BatchSize)]]
    /\ UNCHANGED <<clock, sheet_outbox, notification_outbox>>
    /\ OutboxFrame

\* _fetch_outbox_candidates, first query: status PENDING, order created_at.
QueryPending(d) ==
    /\ pass[d].pc = "query_pending"
    /\ \E outcome \in StoreOutcomes :
          IF outcome = "ok"
          THEN \E got \in QueryRows(pass[d].table, PendingIds(pass[d].table),
                                    [id \in DOMAIN Table(pass[d].table) |->
                                        Table(pass[d].table)[id].created_at],
                                    pass[d].limit) :
                  pass' = IF Len(got) < pass[d].limit
                          THEN [pass EXCEPT ![d].rows = got,
                                            ![d].pc = "query_failed_null"]
                          ELSE Meet(d, Fetched(pass[d], got))
          ELSE pass' = [pass EXCEPT ![d].pc = "raised"]
    /\ UNCHANGED <<clock, sheet_outbox, notification_outbox>>
    /\ OutboxFrame

\* Second query: status FAILED with next_retry_at null, order updated_at (a
\* column this code never writes: it is as the store keeps it).
QueryFailedNull(d) ==
    /\ pass[d].pc = "query_failed_null"
    /\ \E outcome \in StoreOutcomes :
          IF outcome = "ok"
          THEN \E got \in QueryRows(pass[d].table, FailedNullIds(pass[d].table),
                                    [id \in DOMAIN Table(pass[d].table) |->
                                        Table(pass[d].table)[id].updated_at],
                                    pass[d].limit - Len(pass[d].rows)) :
                  pass' = IF Len(pass[d].rows \o got) < pass[d].limit
                          THEN [pass EXCEPT ![d].rows = @ \o got,
                                            ![d].pc = "query_failed_due"]
                          ELSE Meet(d, Fetched(pass[d], pass[d].rows \o got))
          ELSE pass' = [pass EXCEPT ![d].pc = "raised"]
    /\ UNCHANGED <<clock, sheet_outbox, notification_outbox>>
    /\ OutboxFrame

\* Third query: status FAILED with next_retry_at <= now, order next_retry_at.
QueryFailedDue(d) ==
    /\ pass[d].pc = "query_failed_due"
    /\ \E outcome \in StoreOutcomes :
          IF outcome = "ok"
          THEN \E got \in QueryRows(pass[d].table,
                                    FailedDueIds(pass[d].table, clock),
                                    [id \in DOMAIN Table(pass[d].table) |->
                                        Table(pass[d].table)[id].next_retry_at],
                                    pass[d].limit - Len(pass[d].rows)) :
                  pass' = Meet(d, Fetched(pass[d], pass[d].rows \o got))
          ELSE pass' = [pass EXCEPT ![d].pc = "raised"]
    /\ UNCHANGED <<clock, sheet_outbox, notification_outbox>>
    /\ OutboxFrame

ClaimMatch_AnyStatus(t, row) == {id \in DOMAIN Table(t) : id = row.id}

\* Mutant: the claim matches the row whenever no pass is at work on it.
ClaimMatch_NotProcessing(t, row) ==
    {id \in DOMAIN Table(t) : id = row.id /\ Table(t)[id].status # "PROCESSING"}

\* _claim_outbox_row: the rows its PATCH matches, id=eq.X & status=eq.S.
ClaimMatch(t, row) ==
    {id \in DOMAIN Table(t) : id = row.id /\ Table(t)[id].status = row.status}

\* _claim_outbox_row and the branch on its result.
Claim(d) ==
    /\ pass[d].pc = "claim"
    /\ \E outcome \in StoreOutcomes :
          IF outcome = "ok"
          THEN IF ClaimMatch(pass[d].table, Row(d)) # {}
               THEN /\ UpdateRow(pass[d].table, Row(d).id,
                                 [Table(pass[d].table)[Row(d).id]
                                     EXCEPT !.status = "PROCESSING"])
                    /\ pass' = [pass EXCEPT ![d].pc = "deliver",
                                            ![d].result.processed = @ + 1,
                                            ![d].claimed = @ \cup {Row(d).id}]
               ELSE /\ pass' = [pass EXCEPT ![d] =
                                  LoopAt([pass[d] EXCEPT !.result.skipped = @ + 1],
                                         pass[d].pos + 1)]
                    /\ UNCHANGED <<sheet_outbox, notification_outbox>>
          ELSE /\ pass' = [pass EXCEPT ![d].pc = "raised"]
               /\ UNCHANGED <<sheet_outbox, notification_outbox>>
    /\ UNCHANGED clock
    /\ OutboxFrame

\* _deliver_sheet_payload / _deliver_notification_payload: the webhook
\* accepts the payload or the request fails.
Deliver(d) ==
    /\ pass[d].pc = "deliver"
    /\ \E outcome \in {"ok", "error"} :
          pass' = [pass EXCEPT ![d].pc =
                      IF outcome = "error" THEN "mark_failed"
                      ELSE IF pass[d].table = "sheet_outbox"
                           THEN "notification_exists"
                           ELSE "mark_sent",
                                ![d].error =
                      IF outcome = "error" THEN "delivery" ELSE "none"]
    /\ UNCHANGED <<clock, sheet_outbox, notification_outbox>>
    /\ OutboxFrame

\* Mutant: the sheet row is marked SENT without its notification being
\* looked up or enqueued.
NotificationExists_Unchained(d) ==
    /\ pass[d].pc = "notification_exists"
    /\ pass' = [pass EXCEPT ![d].pc = "mark_sent"]
    /\ UNCHANGED <<clock, sheet_outbox, notification_outbox>>
    /\ OutboxFrame

\* _notification_outbox_exists, called by _enqueue_notification_from_sheet.
NotificationExists(d) ==
    /\ pass[d].pc = "notification_exists"
    /\ \E outcome \in StoreOutcomes :
          pass' = [pass EXCEPT ![d].pc =
                      IF outcome = "error" THEN "mark_failed"
                      ELSE IF \E n \in DOMAIN notification_outbox :
                                 notification_outbox[n].source_id = Row(d).row_key
                           THEN "mark_sent"
                           ELSE "notification_insert"]
    /\ UNCHANGED <<clock, sheet_outbox, notification_outbox>>
    /\ OutboxFrame

\* _enqueue_notification_from_sheet: POST /notification_outbox.
NotificationInsert(d) ==
    /\ pass[d].pc = "notification_insert"
    /\ \E outcome \in StoreOutcomes :
          IF outcome = "ok"
          THEN /\ notification_outbox' =
                     Append(notification_outbox,
                            NewNotificationRow(Row(d).row_key, clock))
               /\ pass' = [pass EXCEPT ![d].pc = "mark_sent",
                                       ![d].result.notification_enqueued = @ + 1]
          ELSE /\ pass' = [pass EXCEPT ![d].pc = "mark_failed"]
               /\ UNCHANGED notification_outbox
    /\ UNCHANGED <<clock, sheet_outbox>>
    /\ OutboxFrame

\* _mark_outbox_sent; a failure is caught by the except clause of the loop.
MarkSent(d) ==
    /\ pass[d].pc = "mark_sent"
    /\ \E outcome \in StoreOutcomes :
          IF outcome = "ok"
          THEN /\ UpdateRow(pass[d].table, Row(d).id,
                            [Table(pass[d].table)[Row(d).id]
                                EXCEPT !.status = "SENT",
                                       !.retry_scheduled = FALSE,
                                       !.next_retry_at = 0])
               /\ pass' = [pass EXCEPT ![d] =
                             LoopAt([pass[d] EXCEPT !.result.sent = @ + 1],
                                    pass[d].pos + 1)]
          ELSE /\ pass' = [pass EXCEPT ![d].pc = "mark_failed"]
               /\ UNCHANGED <<sheet_outbox, notification_outbox>>
    /\ UNCHANGED clock
    /\ OutboxFrame

\* delay_seconds of _mark_outbox_failed
DelaySeconds_NoCap(base_seconds, max_seconds, current_retry_count) ==
    base_seconds * Pow2(Max(0, current_retry_count))

\* delay_seconds of _mark_outbox_failed, for a retry configuration.
DelaySeconds(base_seconds, max_seconds, current_retry_count) ==
    Min(base_seconds * Pow2(Max(0, current_retry_count)), max_seconds)

RetryDelay(current_retry_count) ==
    DelaySeconds(outbox_retry_base_seconds, outbox_retry_max_seconds,
                 current_retry_count)

\* What one _mark_outbox_failed did to its row: the retry count the row had,
\* the one it has now, the retry time written and the time of the write.
Marked(d, cause) ==
    [id |-> Row(d).id, cause |-> cause,
     before |-> Table(pass[d].table)[Row(d).id].retry_count,
     after |-> Row(d).retry_count + 1,
     next_retry_at |-> clock + RetryDelay(Row(d).retry_count),
     at |-> clock]

\* _mark_outbox_failed, with the retry count the candidate list holds; its
\* own failure leaves the loop and the pass.
MarkFailed(d) ==
    /\ pass[d].pc = "mark_failed"
    /\ \E outcome \in StoreOutcomes :
          IF outcome = "ok"
          THEN /\ UpdateRow(pass[d].table, Row(d).id,
                            [Table(pass[d].table)[Row(d).id]
                                EXCEPT !.status = "FAILED",
                                       !.retry_count = Row(d).retry_count + 1,
                                       !.retry_scheduled = TRUE,
                                       !.next_retry_at =
                                           clock + RetryDelay(Row(d).retry_count)])
               /\ pass' = [pass EXCEPT ![d] =
                             LoopAt([pass[d] EXCEPT
                                        !.result.failed = @ + 1,
                                        !.error = "none",
                                        !.marked = @ \cup
                                            {Marked(d, pass[d].error)}],
                                    pass[d].pos + 1)]
          ELSE /\ pass' = [pass EXCEPT ![d].pc = "raised"]
               /\ UNCHANGED <<sheet_outbox, notification_outbox>>
    /\ UNCHANGED clock
    /\ OutboxFrame

\* A row as an earlier pass left it: after one failed attempt made when the
\* row was created (what MarkFailed writes), or sent.
FailedOnce(row) ==
    [row EXCEPT !.status = "FAILED", !.retry_count = 1,
                !.retry_scheduled = TRUE,
                !.next_retry_at = row.created_at + RetryDelay(0)]

Sent(row) == [row EXCEPT !.status = "SENT"]

\* The tables as earlier sync runs and dispatch passes left them: sheet rows
\* waiting for a first or a second attempt and nothing chained yet, or all
\* sheet rows sent and their notifications waiting.
InitTables(n) ==
    \E failed \in SUBSET (1..n) :
        \/ /\ sheet_outbox =
                 [id \in 1..n |->
                    IF id \in failed THEN FailedOnce(NewSheetRow(id, 0))
                    ELSE NewSheetRow(id, 0)]
           /\ notification_outbox = <<>>
        \/ /\ sheet_outbox = [id \in 1..n |-> Sent(NewSheetRow(id, 0))]
           /\ notification_outbox =
                 [id \in 1..n |->
                    IF id \in failed THEN FailedOnce(NewNotificationRow(id, 0))
                    ELSE NewNotificationRow(id, 0)]

InitOutbox ==
    /\ InitCallers({})
    /\ InitTables(SheetRows)
    /\ pass = [d \in Dispatchers |-> NoPass]
    /\ NoPersist
    /\ NoAuth
    /\ NoRetry
    /\ NoService

NextOutbox ==
    \/ Tick
    \/ \E d \in Dispatchers, t \in OutboxTables : DispatchCall(d, t)
    \/ \E d \in Dispatchers : QueryPending(d)
    \/ \E d \in Dispatchers : QueryFailedNull(d)
    \/ \E d \in Dispatchers : QueryFailedDue(d)
    \/ \E d \in Dispatchers : Claim(d)
    \/ \E d \in Dispatchers : Deliver(d)
    \/ \E d \in Dispatchers : NotificationExists(d)
    \/ \E d \in Dispatchers : NotificationInsert(d)
    \/ \E d \in Dispatchers : MarkSent(d)
    \/ \E d \in Dispatchers : MarkFailed(d)

SpecOutbox == InitOutbox /\ [][NextOutbox]_vars

\* The process that runs a pass is killed or restarted between two requests:
\* the pass makes no further step.
Kill(d) ==
    /\ pass[d].pc \notin {"idle", "done", "raised", "killed"}
    /\ pass' = [pass EXCEPT ![d].pc = "killed"]
    /\ UNCHANGED <<clock, sheet_outbox, notification_outbox>>
    /\ OutboxFrame

NextOutboxKill ==
    \/ NextOutbox
    \/ \E d \in Dispatchers : Kill(d)

SpecOutboxKill == InitOutbox /\ [][NextOutboxKill]_vars

\* Passes over one table run one after the other, d1 first: a pass is called
\* when the pass before it has ended, with the batch size the caller asks for
\* (0: the configured one).
Earlier(d) == IF d = "d2" THEN {"d1"} ELSE {}

DispatchAfter(d, t, batch_size) ==
    /\ pass[d].pc = "idle"
    /\ \A e \in Dispatchers \ {d} :
          pass[e].pc \in (IF e \in Earlier(d) THEN {"done", "raised"}
                          ELSE {"idle"})
    /\ \A e \in Earlier(d) : pass[e].table = t
    /\ pass' = [pass EXCEPT ![d] =
                  [NoPass EXCEPT !.pc = "query_pending", !.table = t,
                                 !.limit = Max(1, IF batch_size = 0
                                                  THEN BatchSize
                                                  ELSE batch_size)]]
    /\ UNCHANGED <<clock, sheet_outbox, notification_outbox>>
    /\ OutboxFrame

PassStep(d) ==
    \/ QueryPending(d)
    \/ QueryFailedNull(d)
    \/ QueryFailedDue(d)
    \/ Claim(d)
    \/ Deliver(d)
    \/ NotificationExists(d)
    \/ NotificationInsert(d)
    \/ MarkSent(d)
    \/ MarkFailed(d)

\* One row more than a configured batch holds, and the clock one tick
\* before the horizon.
InitRepeat ==
    /\ clock = MaxTime - 1
    /\ job_lock = {}
    /\ lock_version = 0
    /\ run_log = <<>>
    /\ pc = <<>>
    /\ now = <<>>
    /\ lock_acquired = <<>>
    /\ exc = <<>>
    /\ acq = <<>>
    /\ rel = <<>>
    /\ run = <<>>
    /\ InitTables(BatchSize + 1)
    /\ pass = [d \in Dispatchers |-> NoPass]
    /\ NoPersist
    /\ NoAuth
    /\ NoRetry
    /\ NoService

NextRepeat ==
    \/ Tick
    \/ \E d \in Dispatchers, t \in OutboxTables, batch_size \in {0, BatchSize + 2} :
          DispatchAfter(d, t, batch_size)
    \/ \E d \in Dispatchers : PassStep(d)

SpecRepeat == InitRepeat /\ [][NextRepeat]_vars

----------------------------------------------------------------------------
(* Properties of the lease and of the sync run *)

Terminal(i) == pc[i] \in {"returned", "raised"}

\* Between a successful acquire_job_lock and the end of the invocation.
Active(i) == lock_acquired[i] = "True" /\ ~Terminal(i)

\* The run has lasted less than the TTL so far.
WithinTtl(i) == clock < now[i] + LockTtl

OwnRows(rows, i) == {r \in rows : r.locked_by = lock_owner(i)}

Writes(i) == acq[i].writes
WriteIds(i) == 1..Len(acq[i].writes)

\* A lease of another owner that had expired when the caller read `now`.
ExpiredForeign(i, rows) ==
    \E r \in rows : r.locked_by # lock_owner(i) /\ r.lock_expires_at < now[i]

\* A lease of the caller's own identity that had not expired at `now`.
OwnLive(i, rows) ==
    \E r \in rows : r.locked_by = lock_owner(i) /\ ~(r.lock_expires_at < now[i])

\* The row an acquire at `now` with the configured TTL is to leave.
Granted(i, rows) ==
    /\ rows # {}
    /\ \A r \in rows : /\ r.locked_by = lock_owner(i)
                       /\ r.lock_expires_at = now[i] + LockTtl

\* Not a claim of its own: runs of different worker processes exclude each
\* other as long as each lasts less than the TTL.
MutexAcrossWorkers ==
    \A i, j \in DOMAIN pc :
        (i # j /\ lock_owner(i) # lock_owner(j) /\ WithinTtl(i) /\ WithinTtl(j))
            => ~(Active(i) /\ Active(j))

\* C1: at any moment at most one sync invocation is between its successful
\* acquire and its release, for invocations of different worker processes and
\* for invocations inside one worker process, each run lasting less than the TTL.
C1_AtMostOneActiveRun ==
    \A i, j \in DOMAIN pc :
        (i # j /\ WithinTtl(i) /\ WithinTtl(j)) => ~(Active(i) /\ Active(j))

\* C2: while another owner's lease has not expired, acquire affects no row,
\* leaves the lease row as it is and returns False.
C2_LiveLeaseRefusesOtherOwner ==
    \A i \in DOMAIN pc :
        (Writes(i) # <<>> /\ acq[i].foreign_live) =>
            /\ \A k \in WriteIds(i) : /\ ~Writes(i)[k].hit
                                      /\ Writes(i)[k].after = Writes(i)[k].before
            /\ lock_acquired[i] # "True"
            /\ (Len(Writes(i)) = 3 => lock_acquired[i] = "False")

C2_Witness ==
    \E i \in DOMAIN pc :
        /\ Len(Writes(i)) = 3
        /\ acq[i].foreign_live
        /\ lock_acquired[i] = "False"

\* C3: a takeover that finds another owner's expired, unreleased lease succeeds,
\* acquire returns True and the row then names the caller with expires-at =
\* call time + ttl; no two callers take over the same lease.
C3_ExpiredLeaseTakenOverOnce ==
    /\ \A i \in DOMAIN pc : \A k \in WriteIds(i) :
          (Writes(i)[k].op = "takeover" /\ ExpiredForeign(i, Writes(i)[k].before)) =>
              /\ Writes(i)[k].hit
              /\ Granted(i, Writes(i)[k].after)
              /\ lock_acquired[i] = "True"
    /\ \A i, j \in DOMAIN pc : \A k \in WriteIds(i) : \A l \in WriteIds(j) :
          (/\ i # j
           /\ Writes(i)[k].op = "takeover" /\ Writes(i)[k].hit
           /\ Writes(j)[l].op = "takeover" /\ Writes(j)[l].hit)
              => Writes(i)[k].version # Writes(j)[l].version

\* Two owners found the same expired lease of a third; one took it over and
\* the other was refused.
C3_Witness ==
    \E i, j \in DOMAIN pc :
        /\ lock_owner(i) # lock_owner(j)
        /\ Len(Writes(i)) = 2 /\ Writes(i)[2].hit
        /\ ExpiredForeign(i, Writes(i)[2].before)
        /\ Len(Writes(j)) = 3
        /\ Writes(j)[1].version = Writes(i)[2].version
        /\ ExpiredForeign(j, Writes(j)[1].before)
        /\ lock_acquired[i] = "True"
        /\ lock_acquired[j] = "False"

\* C4: a release by a caller that owns no lease row (the row is another
\* owner's, or there is none) changes nothing and raises nothing.
C4_ReleaseByNonOwnerIsNoop ==
    \A i \in DOMAIN pc :
        (rel[i].outcome = "ok" /\ OwnRows(rel[i].before, i) = {}) =>
            /\ rel[i].after = rel[i].before
            /\ exc[i] = "none"
            /\ pc[i] = "returned"

\* The caller had acquired the lease, and releases when the row is another owner's.
C4_Witness ==
    \E i \in DOMAIN pc :
        /\ lock_acquired[i] = "True"
        /\ rel[i].outcome = "ok"
        /\ rel[i].before # {}
        /\ OwnRows(rel[i].before, i) = {}
        /\ rel[i].after = rel[i].before

AcquireOrder == <<"insert", "takeover", "refresh">>

\* C5: acquire tries insert, takeover, refresh in this order, stops at the
\* first write that affects a row and returns True iff one did; a refresh that
\* finds the caller's own unexpired lease succeeds and leaves the row with the
\* same owner and expires-at = call time + ttl.
C5_AcquireTriesThreeWritesInOrder ==
    \A i \in DOMAIN pc :
        /\ Len(Writes(i)) <= 3
        /\ \A k \in WriteIds(i) :
              /\ Writes(i)[k].op = AcquireOrder[k]
              /\ Writes(i)[k].hit => k = Len(Writes(i))
              /\ ~Writes(i)[k].hit => Writes(i)[k].after = Writes(i)[k].before
              /\ (Writes(i)[k].op = "refresh" /\ OwnLive(i, Writes(i)[k].before)) =>
                    /\ Writes(i)[k].hit
                    /\ Granted(i, Writes(i)[k].after)
        /\ (lock_acquired[i] = "True") <=> (\E k \in WriteIds(i) : Writes(i)[k].hit)
        /\ (lock_acquired[i] = "False") => Len(Writes(i)) = 3

C5_Witness ==
    \E i \in DOMAIN pc :
        /\ Len(Writes(i)) = 3
        /\ OwnLive(i, Writes(i)[3].before)
        /\ Writes(i)[3].hit
        /\ lock_acquired[i] = "True"

C7_LockConflictHasNoEffect ==
    \A i \in DOMAIN pc :
        lock_acquired[i] = "False" =>
            /\ pc[i] \in {"acquire_returned", "raised"}
            /\ pc[i] = "raised" => exc[i] = "lock_conflict"
            /\ run_log[i].status = "none"
            /\ run[i].effects = {}
            /\ ~run[i].entered
            /\ rel[i].outcome = "none"
            /\ \A k \in WriteIds(i) : /\ ~Writes(i)[k].hit
                                      /\ Writes(i)[k].after = Writes(i)[k].before

\* The invocation was refused while the other worker held the lease.
C7_Witness ==
    \E i \in DOMAIN pc :
        /\ lock_acquired[i] = "False"
        /\ pc[i] = "raised"
        /\ exc[i] = "lock_conflict"
        /\ \E r \in job_lock : r.locked_by # lock_owner(i)

\* C8: a run that started a run-log row ends with the row finalized, SUCCESS
\* when traversal and persistence raised nothing, FAILED with the error
\* message otherwise; the finalization precedes the release, and on the failure
\* path the original exception reaches the caller.  (Runs in which the store
\* refused the finalizing or the releasing request are left aside.)
C8_RunLogFinalized ==
    \A i \in DOMAIN pc :
        (Terminal(i) /\ run[i].entered /\ ~run[i].finalize_store_failed) =>
            /\ run[i].steps = <<"finish_run", "release">>
            /\ run[i].body = "ok" =>
                  /\ run_log[i].status = "SUCCESS"
                  /\ pc[i] = "returned"
            /\ run[i].body # "ok" =>
                  /\ run_log[i].status = "FAILED"
                  /\ run_log[i].error_message = run[i].body
                  /\ pc[i] = "raised"
                  /\ exc[i] = run[i].body

----------------------------------------------------------------------------
(* Properties of the outbox dispatcher *)

\* Two passes overlap when both have read their candidate lists of the same
\* table before either has finished.
Overlap(d, e) ==
    /\ d # e
    /\ pass[d].table = pass[e].table
    /\ e \in pass[d].peers
    /\ d \in pass[e].peers

\* What the candidate list of pass d holds for the rows it claimed.
ClaimedAs(d) ==
    {pass[d].rows[k] : k \in {j \in 1..Len(pass[d].rows) :
                                  pass[d].rows[j].id \in pass[d].claimed}}

\* C9: of the passes that overlap and have read an outbox row in the same
\* state, at most one claims the row successfully: no row is claimed by two
\* of them.
C9_AtMostOneClaimPerRow ==
    \A d, e \in DOMAIN pass :
        Overlap(d, e) => ClaimedAs(d) \cap ClaimedAs(e) = {}

AllowedTransitions ==
    {<<"PENDING", "PROCESSING">>, <<"FAILED", "PROCESSING">>,
     <<"PROCESSING", "SENT">>, <<"PROCESSING", "FAILED">>}

StatusStep(before, after) ==
    \A id \in DOMAIN before :
        before[id].status # after[id].status =>
            <<before[id].status, after[id].status>> \in AllowedTransitions

DeliveryFailures(d) == {m \in pass[d].marked : m.cause = "delivery"}

\* C11: when the delivery of a claimed row raises, the pass does not raise:
\* the row's retry_count goes up by exactly 1, its next_retry_at is
\* now + min(base * 2^priorRetryCount, maxDelay), the pass counts the row as
\* failed and goes on to the remaining candidates.  (Passes in which the store
\* refused the marking request are left aside.)
C11_DeliveryErrorBecomesRetry ==
    \A d \in DOMAIN pass :
        /\ \A m \in DeliveryFailures(d) :
              /\ m.after = m.before + 1
              /\ m.next_retry_at = m.at + RetryDelay(m.before)
        /\ pass[d].result.failed = Cardinality(pass[d].marked)

\* A pass that has claimed a row and has not yet marked it.
Holds(d, t, id) ==
    /\ pass[d].table = t
    /\ pass[d].pc \in {"deliver", "notification_exists", "notification_insert",
                        "mark_sent", "mark_failed"}
    /\ Row(d).id = id

Stranded(t, id) ==
    /\ Table(t)[id].status = "PROCESSING"
    /\ ~\E d \in DOMAIN pass : Holds(d, t, id)

\* No request of a dispatch pass matches a stranded row: it is no candidate of
\* any query, no claim matches its status, and only its holder marks it.
StrandedRowStays ==
    [][\A t \in OutboxTables : \A id \in DOMAIN Table(t) :
          Stranded(t, id) => /\ id \in DOMAIN Table(t)'
                              /\ Table(t)'[id] = Table(t)[id]]_vars

\* C12: every enqueued outbox row eventually reaches SENT, also when a
\* dispatcher is killed at any point of a pass; so no row is ever left
\* PROCESSING with no pass at work on it, a state the row never leaves.
C12_NoRowStranded ==
    \A t \in OutboxTables : \A id \in DOMAIN Table(t) : ~Stranded(t, id)

\* A row a pass would pick at time t_now.
Candidate(t, id, t_now) ==
    \/ Table(t)[id].status = "PENDING"
    \/ /\ Table(t)[id].status = "FAILED"
       /\ \/ ~Table(t)[id].retry_scheduled
          \/ Table(t)[id].next_retry_at <= t_now

NoCandidate(t, t_now) ==
    \A id \in DOMAIN Table(t) : ~Candidate(t, id, t_now)

QueryPcs == {"query_pending", "query_failed_null", "query_failed_due"}

\* The step that ends the queries of a pass which found nothing so far, on a
\* table without a candidate, ends the pass with picked = 0 and no row changed.
QuietFetch ==
    \A d \in DOMAIN pass :
        /\ pass[d].pc \in QueryPcs
        /\ pass[d].rows = <<>>
        /\ NoCandidate(pass[d].table, clock)
        /\ pass'[d].pc \notin QueryPcs \cup {"raised"}
        => /\ pass'[d].pc = "done"
           /\ pass'[d].result = OutboxDispatchResult
           /\ sheet_outbox' = sheet_outbox
           /\ notification_outbox' = notification_outbox

\* A pass that picked nothing has claimed and marked nothing.
QuietPass ==
    \A d \in DOMAIN pass :
        pass[d].pc = "done" /\ pass[d].result.picked = 0
        => pass[d].claimed = {} /\ pass[d].marked = {}

\* The second of two passes over one table, with the clock where it stood
\* when the first was called.
SecondPass ==
    /\ clock = MaxTime - 1
    /\ pass["d1"].pc = "done"
    /\ pass["d2"].pc # "idle"
    /\ pass["d2"].table = pass["d1"].table

SecondPassQuiet ==
    SecondPass /\ pass["d1"].result.picked < pass["d1"].limit
    => pass["d2"].result.picked = 0

AnySecondPassQuiet ==
    SecondPass => pass["d2"].result.picked = 0

\* C17: a pass over a table with no PENDING row, no FAILED row without a
\* retry time and no FAILED row that is due picks nothing and changes no row;
\* and the second of two passes picks nothing when the first one returned with
\* fewer rows than its batch limit and no time has passed.
C17_QuietTablePicksNothing ==
    [][QuietFetch]_vars /\ []QuietPass /\ []SecondPassQuiet

\* C17 as stated: the second of two passes picks nothing, whatever the first
\* one picked.
C17_AnySecondPassPicksNothing ==
    [][QuietFetch]_vars /\ []QuietPass /\ []AnySecondPassQuiet

\* The first pass delivered a row, the second found nothing to pick.
C17_Witness ==
    /\ SecondPass
    /\ pass["d1"].result.picked > 0
    /\ pass["d1"].result.picked < pass["d1"].limit
    /\ pass["d2"].pc = "done"
    /\ pass["d2"].result.picked = 0

\* The sheet outbox as one alert insertion can leave it: two PENDING rows
\* with one row_key, posted together (EnqueueSheetOutbox).
InitSameKey ==
    /\ InitCallers({})
    /\ sheet_outbox = [id \in 1..2 |-> NewSheetRow(1, 0)]
    /\ notification_outbox = <<>>
    /\ pass = [d \in Dispatchers |-> NoPass]
    /\ NoPersist
    /\ NoAuth
    /\ NoRetry
    /\ NoService

SpecSameKey == InitSameKey /\ [][NextOutbox]_vars

\* C19: the notification outbox holds at most one row per sheet row key
\* (template and recipient are those of the configuration), whatever sheet
\* dispatch passes have run.
C19_OneNotificationPerKey ==
    \A i, j \in DOMAIN notification_outbox :
        notification_outbox[i].source_id = notification_outbox[j].source_id
        => i = j

----------------------------------------------------------------------------
(* The retry delay of a row, attempt after attempt *)

\* Bounds: the largest base setting (the maximum setting ranges over twice
\* as much) and the failed attempts on one row.
RetrySettings == 3
MaxAttempts == 4

\* A configuration as __init__ clamps the settings, and the delay of the
\* first failed attempt (current_retry_count = 0).
RetryConfig(base_setting, max_setting) ==
    LET base_seconds == Max(1, base_setting)
        max_seconds == Max(base_seconds, max_setting)
    IN  [base_setting |-> base_setting, max_setting |-> max_setting,
         base_seconds |-> base_seconds, max_seconds |-> max_seconds,
         retry_count |-> 0, previous |-> 0,
         delay_seconds |-> DelaySeconds(base_seconds, max_seconds, 0)]

InitRetry ==
    /\ InitCallers({})
    /\ sheet_outbox = <<>>
    /\ notification_outbox = <<>>
    /\ pass = <<>>
    /\ NoPersist
    /\ NoAuth
    /\ NoService
    /\ \E base_setting \in 0..RetrySettings,
          max_setting \in 0..(2 * RetrySettings) :
          retry = RetryConfig(base_setting, max_setting)

\* One more failed attempt on the row: _mark_outbox_failed is called with the
\* retry_count the attempt before wrote.
FailAgain ==
    /\ retry.retry_count < MaxAttempts
    /\ retry' = [retry EXCEPT
                    !.retry_count = @ + 1,
                    !.previous = retry.delay_seconds,
                    !.delay_seconds =
                        DelaySeconds(retry.base_seconds, retry.max_seconds,
                                     retry.retry_count + 1)]
    /\ UNCHANGED <<leaseVars, syncVars, outboxVars, persistVars, authVars, serviceVars>>

NextRetry == FailAgain

SpecRetry == InitRetry /\ [][NextRetry]_vars

\* C18: with base >= 1 and maxDelay >= base the delay never decreases from
\* one attempt to the next, never exceeds maxDelay, and is base for n = 0.
C18_DelayMonotoneAndCapped ==
    /\ retry.base_seconds >= 1
    /\ retry.max_seconds >= retry.base_seconds
    /\ retry.previous <= retry.delay_seconds
    /\ retry.delay_seconds <= retry.max_seconds
    /\ retry.retry_count = 0 => retry.delay_seconds = retry.base_seconds

\* The doubling has reached the cap and stays there.
C18_Witness ==
    /\ retry.retry_count >= 2
    /\ retry.previous = retry.max_seconds
    /\ retry.delay_seconds = retry.max_seconds
    /\ retry.base_seconds < retry.max_seconds

----------------------------------------------------------------------------
(* The persistence engine: upsert_source_records and what it calls *)

\* Bounds: the longest batch, the cooldown window in ticks, and the calls
\* a writer makes.
MaxBatch == 2
AlertCooldown == 1
MaxCalls == 2

Writers == {"w1", "w2"}
SourceTypes == {"enrolment_status", "enrolment_user_detail"}
SourceIds == {"t1:u1"}
PayloadHashes == {"h1", "h2"}

\* A SourceRecordInput: its key and the hash of its payload.  The other
\* fields of a record come from the same upstream row as the payload and are
\* taken to be determined by it.  Status records come with either payload,
\* detail records with one.
SourceRecordInputs ==
    {r \in [source_type : SourceTypes, source_id : SourceIds,
            payload_hash : PayloadHashes] :
        r.source_type = "enrolment_user_detail" => r.payload_hash = "h1"}

Batches ==
    UNION {[1..n -> SourceRecordInputs] : n \in 0..MaxBatch}

alert_cooldown_minutes == Max(0, AlertCooldown)

PersistResult(upserted, new, changed, alerts) ==
    [upserted_count |-> upserted, new_count |-> new,
     changed_count |-> changed, alert_count |-> alerts]

NoResult == PersistResult(0, 0, 0, 0)

NoUpsert ==
    [pc |-> "idle", calls |-> 0, records |-> <<>>, existing_hashes |-> <<>>,
     diff |-> <<>>, candidates |-> <<>>, alert_rows |-> <<>>, since |-> 0,
     pos |-> 0, outbox_rows |-> <<>>, result |-> NoResult,
     prev |-> <<>>, failed_at |-> "none", after |-> {}]

Key(record) == <<record.source_type, record.source_id>>

Put(f, k, v) == [x \in DOMAIN f \cup {k} |-> IF x = k THEN v ELSE f[x]]

\* The stored hashes of the rows the query matches: every stored row whose
\* type is one of the batch's types and whose id is one of the batch's ids.
FetchExistingHashes(records) ==
    LET source_types == {records[i].source_type : i \in DOMAIN records}
        source_ids == {records[i].source_id : i \in DOMAIN records}
        keys == {k \in DOMAIN source_record :
                    k[1] \in source_types /\ k[2] \in source_ids}
    IN  [k \in keys |-> source_record[k]]

RECURSIVE BuildDiffFrom(_, _, _, _)
BuildDiffFrom(records, existing_hashes, i, diff) ==
    IF i > Len(records) THEN diff
    ELSE LET key == Key(records[i])
             next == IF key \notin DOMAIN existing_hashes
                     THEN Put(diff, key, "NEW")
                     ELSE IF existing_hashes[key] # records[i].payload_hash
                          THEN Put(diff, key, "CHANGED")
                          ELSE diff
         IN  BuildDiffFrom(records, existing_hashes, i + 1, next)

BuildDiff(records, existing_hashes) ==
    BuildDiffFrom(records, existing_hashes, 1, <<>>)

\* An alert row.  `detail` stands for title, message and detail, which are
\* built from the alert type and the record's fields; `of` is the position of
\* the record in the batch (history).
AlertRow(record, alert_type, i) ==
    [source_type |-> record.source_type, source_id |-> record.source_id,
     alert_type |-> alert_type, detail |-> record.payload_hash, of |-> i]

RECURSIVE BuildAlertRowsFrom(_, _, _)
BuildAlertRowsFrom(records, diff, i) ==
    IF i > Len(records) THEN <<>>
    ELSE LET record == records[i]
             row == IF /\ record.source_type = "enrolment_status"
                       /\ Key(record) \in DOMAIN diff
                    THEN <<AlertRow(record, diff[Key(record)], i)>>
                    ELSE <<>>
         IN  row \o BuildAlertRowsFrom(records, diff, i + 1)

BuildAlertRows(records, diff) == BuildAlertRowsFrom(records, diff, 1)

CountBusinessDiff(records, diff, value) ==
    Cardinality({i \in DOMAIN records :
                    /\ records[i].source_type = "enrolment_status"
                    /\ Key(records[i]) \in DOMAIN diff
                    /\ diff[Key(records[i])] = value})

\* The digest of source_type, source_id, alert_type, title, message and
\* detail, prefixed with the first three: equal for equal contents.
BuildAlertRowKey(row) ==
    <<row.source_type, row.source_id, row.alert_type, row.detail>>

HasRecentAlert(row, since) ==
    \E i \in DOMAIN alert :
        /\ alert[i].source_type = row.source_type
        /\ alert[i].source_id = row.source_id
        /\ alert[i].alert_type = row.alert_type
        /\ alert[i].created_at >= since

SheetOutboxRowExists(row_key) ==
    \E id \in DOMAIN sheet_outbox : sheet_outbox[id].row_key = row_key

RECURSIVE UpsertRows(_, _, _)
UpsertRows(stored, records, i) ==
    IF i > Len(records) THEN stored
    ELSE UpsertRows(Put(stored, Key(records[i]), records[i].payload_hash),
                    records, i + 1)

\* One writer may call repeatedly; writers that run side by side call once.
CallLimit == IF Cardinality(DOMAIN upsert) = 1 THEN MaxCalls ELSE 1

Return(u) ==
    [u EXCEPT !.pc = "returned",
              !.result =
                  PersistResult(Len(u.records),
                                CountBusinessDiff(u.records, u.diff, "NEW"),
                                CountBusinessDiff(u.records, u.diff, "CHANGED"),
                                Len(u.alert_rows))]

\* A request of the call was refused: raise_for_status raises out of
\* upsert_source_records.  failed_at keeps the step that raised.
Raise(u) == [u EXCEPT !.failed_at = u.pc, !.pc = "raised"]

PersistFrame ==
    UNCHANGED <<leaseVars, syncVars, pass, notification_outbox, authVars, retry, serviceVars>>

UpsertCall(w, records) ==
    /\ upsert[w].pc \in {"idle", "returned"}
    /\ upsert[w].calls < CallLimit
    /\ LET u == [NoUpsert EXCEPT
                    !.calls = upsert[w].calls + 1,
                    !.records = records,
                    !.after = {x \in DOMAIN upsert : upsert[x].pc = "raised"},
                    !.prev = IF upsert[w].pc = "returned"
                             THEN <<[records |-> upsert[w].records,
                                     result |-> upsert[w].result]>>
                             ELSE <<>>]
       IN  upsert' = [upsert EXCEPT ![w] =
                         IF records = <<>> THEN [u EXCEPT !.pc = "returned"]
                         ELSE [u EXCEPT !.pc = "fetch_hashes"]]
    /\ UNCHANGED <<clock, source_record, snapshot, alert, sheet_outbox>>
    /\ PersistFrame

FetchHashes(w) ==
    /\ upsert[w].pc = "fetch_hashes"
    /\ \E outcome \in StoreOutcomes :
          IF outcome = "ok"
          THEN LET existing_hashes == FetchExistingHashes(upsert[w].records)
                   diff == BuildDiff(upsert[w].records, existing_hashes)
                   rows == BuildAlertRows(upsert[w].records, diff)
                   u == [upsert[w] EXCEPT !.existing_hashes = existing_hashes,
                                          !.diff = diff,
                                          !.candidates = rows]
               IN  upsert' = [upsert EXCEPT ![w] =
                      IF alert_cooldown_minutes <= 0 \/ rows = <<>>
                      THEN [u EXCEPT !.alert_rows = rows,
                                     !.pc = "upsert_rows"]
                      ELSE [u EXCEPT !.since = clock - alert_cooldown_minutes,
                                     !.pos = 1,
                                     !.pc = "has_recent_alert"]]
          ELSE upsert' = [upsert EXCEPT ![w] = Raise(upsert[w])]
    /\ UNCHANGED <<clock, source_record, snapshot, alert, sheet_outbox>>
    /\ PersistFrame

FilterAlertRowsByCooldown(w) ==
    /\ upsert[w].pc = "has_recent_alert"
    /\ \E outcome \in StoreOutcomes :
          IF outcome = "ok"
          THEN LET u == upsert[w]
                   row == u.candidates[u.pos]
                   filtered == IF HasRecentAlert(row, u.since)
                               THEN u.alert_rows
                               ELSE Append(u.alert_rows, row)
               IN  upsert' = [upsert EXCEPT ![w] =
                      [u EXCEPT !.alert_rows = filtered,
                                !.pos = u.pos + 1,
                                !.pc = IF u.pos = Len(u.candidates)
                                       THEN "upsert_rows"
                                       ELSE "has_recent_alert"]]
          ELSE upsert' = [upsert EXCEPT ![w] = Raise(upsert[w])]
    /\ UNCHANGED <<clock, source_record, snapshot, alert, sheet_outbox>>
    /\ PersistFrame

UpsertSourceRows(w) ==
    /\ upsert[w].pc = "upsert_rows"
    /\ \E outcome \in StoreOutcomes :
          IF outcome = "ok"
          THEN /\ source_record' =
                     UpsertRows(source_record, upsert[w].records, 1)
               /\ upsert' = [upsert EXCEPT ![w].pc = "insert_snapshots"]
          ELSE /\ upsert' = [upsert EXCEPT ![w] = Raise(upsert[w])]
               /\ UNCHANGED source_record
    /\ UNCHANGED <<clock, snapshot, alert, sheet_outbox>>
    /\ PersistFrame

InsertSnapshots(w) ==
    /\ upsert[w].pc = "insert_snapshots"
    /\ \E outcome \in StoreOutcomes :
          IF outcome = "ok"
          THEN LET u == upsert[w]
               IN  /\ snapshot' = snapshot \o
                         [i \in DOMAIN u.records |->
                            [source_type |-> u.records[i].source_type,
                             source_id |-> u.records[i].source_id,
                             snapshot_hash |-> u.records[i].payload_hash,
                             by |-> <<w, u.calls, i>>]]
                   /\ upsert' = [upsert EXCEPT ![w] =
                         IF u.alert_rows # <<>>
                         THEN [u EXCEPT !.pc = "insert_alerts"]
                         ELSE Return(u)]
          ELSE /\ upsert' = [upsert EXCEPT ![w] = Raise(upsert[w])]
               /\ UNCHANGED snapshot
    /\ UNCHANGED <<clock, source_record, alert, sheet_outbox>>
    /\ PersistFrame

InsertAlerts(w) ==
    /\ upsert[w].pc = "insert_alerts"
    /\ \E outcome \in StoreOutcomes :
          IF outcome = "ok"
          THEN LET u == upsert[w]
               IN  /\ alert' = alert \o
                         [i \in DOMAIN u.alert_rows |->
                            [source_type |-> u.alert_rows[i].source_type,
                             source_id |-> u.alert_rows[i].source_id,
                             alert_type |-> u.alert_rows[i].alert_type,
                             detail |-> u.alert_rows[i].detail,
                             created_at |-> clock,
                             by |-> <<w, u.calls, u.alert_rows[i].of>>]]
                   /\ upsert' = [upsert EXCEPT ![w] =
                         [u EXCEPT !.pos = 1, !.pc = "row_exists"]]
          ELSE /\ upsert' = [upsert EXCEPT ![w] = Raise(upsert[w])]
               /\ UNCHANGED alert
    /\ UNCHANGED <<clock, source_record, snapshot, sheet_outbox>>
    /\ PersistFrame

SheetOutboxRowExistsStep(w) ==
    /\ upsert[w].pc = "row_exists"
    /\ \E outcome \in StoreOutcomes :
          IF outcome = "ok"
          THEN LET u == upsert[w]
                   row == u.alert_rows[u.pos]
                   outbox_rows ==
                       IF SheetOutboxRowExists(BuildAlertRowKey(row))
                       THEN u.outbox_rows
                       ELSE Append(u.outbox_rows, row)
                   v == [u EXCEPT !.outbox_rows = outbox_rows,
                                  !.pos = u.pos + 1]
               IN  upsert' = [upsert EXCEPT ![w] =
                      IF u.pos < Len(u.alert_rows)
                      THEN v
                      ELSE IF outbox_rows = <<>> THEN Return(v)
                           ELSE [v EXCEPT !.pc = "post_outbox"]]
          ELSE upsert' = [upsert EXCEPT ![w] = Raise(upsert[w])]
    /\ UNCHANGED <<clock, source_record, snapshot, alert, sheet_outbox>>
    /\ PersistFrame

EnqueueSheetOutbox(w) ==
    /\ upsert[w].pc = "post_outbox"
    /\ \E outcome \in StoreOutcomes :
          IF outcome = "ok"
          THEN LET u == upsert[w]
               IN  /\ sheet_outbox' = sheet_outbox \o
                         [i \in DOMAIN u.outbox_rows |->
                            NewSheetRow(BuildAlertRowKey(u.outbox_rows[i]),
                                        clock)]
                   /\ upsert' = [upsert EXCEPT ![w] = Return(u)]
          ELSE /\ upsert' = [upsert EXCEPT ![w] = Raise(upsert[w])]
               /\ UNCHANGED sheet_outbox
    /\ UNCHANGED <<clock, source_record, snapshot, alert>>
    /\ PersistFrame

\* Nothing stored yet, and the clock late enough for a cooldown window to
\* begin and to end before the horizon.
InitPersist ==
    /\ clock = MaxTime - (AlertCooldown + 1)
    /\ job_lock = {}
    /\ lock_version = 0
    /\ run_log = <<>>
    /\ pc = <<>>
    /\ now = <<>>
    /\ lock_acquired = <<>>
    /\ exc = <<>>
    /\ acq = <<>>
    /\ rel = <<>>
    /\ run = <<>>
    /\ sheet_outbox = <<>>
    /\ notification_outbox = <<>>
    /\ pass = <<>>
    /\ source_record = <<>>
    /\ snapshot = <<>>
    /\ alert = <<>>
    /\ \E W \in {{"w1"}, Writers} : upsert = [w \in W |-> NoUpsert]
    /\ NoAuth
    /\ NoRetry
    /\ NoService

NextPersist ==
    \/ Tick
    \/ \E w \in DOMAIN upsert, records \in Batches : UpsertCall(w, records)
    \/ \E w \in DOMAIN upsert : FetchHashes(w)
    \/ \E w \in DOMAIN upsert : FilterAlertRowsByCooldown(w)
    \/ \E w \in DOMAIN upsert : UpsertSourceRows(w)
    \/ \E w \in DOMAIN upsert : InsertSnapshots(w)
    \/ \E w \in DOMAIN upsert : InsertAlerts(w)
    \/ \E w \in DOMAIN upsert : SheetOutboxRowExistsStep(w)
    \/ \E w \in DOMAIN upsert : EnqueueSheetOutbox(w)

SpecPersist == InitPersist /\ [][NextPersist]_vars

----------------------------------------------------------------------------
(* Properties of the persistence engine *)

\* C13: the sheet outbox holds at most one row per dedup key, whatever alert
\* insertions have run, one batch with the same alert content twice included.
C13_OneSheetRowPerKey ==
    \A i, j \in DOMAIN sheet_outbox :
        sheet_outbox[i].row_key = sheet_outbox[j].row_key => i = j

AllReturned == \A w \in DOMAIN upsert : upsert[w].pc = "returned"

\* The candidates a call classified NEW for a key, as <<writer, position>>.
NewCandidates(key) ==
    {c \in (DOMAIN upsert) \X (1..MaxBatch) :
        /\ c[2] \in DOMAIN upsert[c[1]].candidates
        /\ upsert[c[1]].candidates[c[2]].alert_type = "NEW"
        /\ Key(upsert[c[1]].candidates[c[2]]) = key}

\* Every call that classified a NEW candidate did so within one window.
WithinWindow(key) ==
    \A c, e \in NewCandidates(key) :
        upsert[c[1]].since - upsert[e[1]].since < alert_cooldown_minutes

StoredAlerts(key, alert_type) ==
    {i \in DOMAIN alert :
        Key(alert[i]) = key /\ alert[i].alert_type = alert_type}

\* C14: with a cooldown, two candidates classified NEW for one key within the
\* window, in one batch or in two calls, leave exactly one stored NEW alert
\* for that key.
C14_CooldownKeepsOneAlert ==
    \A key \in SourceTypes \X SourceIds :
        /\ alert_cooldown_minutes > 0
        /\ AllReturned
        /\ Cardinality(NewCandidates(key)) >= 2
        /\ WithinWindow(key)
        => Cardinality(StoredAlerts(key, "NEW")) = 1

\* The records of a call whose hash equals the hash the call read for their
\* key.
Unchanged(w) ==
    {i \in DOMAIN upsert[w].records :
        /\ Key(upsert[w].records[i]) \in DOMAIN upsert[w].existing_hashes
        /\ upsert[w].existing_hashes[Key(upsert[w].records[i])]
              = upsert[w].records[i].payload_hash}

\* C15: a call that has returned has stored no alert for a record whose hash
\* equals the stored hash of its key, and has appended exactly one snapshot
\* row for it.
C15_UnchangedRecordOnlySnapshots ==
    \A w \in DOMAIN upsert :
        upsert[w].pc = "returned" =>
            \A i \in Unchanged(w) :
                /\ ~\E a \in DOMAIN alert :
                       alert[a].by = <<w, upsert[w].calls, i>>
                /\ Cardinality({n \in DOMAIN snapshot :
                       snapshot[n].by = <<w, upsert[w].calls, i>>}) = 1

\* A call that repeats, with no other writer around, the batch of the call
\* before it.
Repeats(w) ==
    /\ DOMAIN upsert = {w}
    /\ upsert[w].pc = "returned"
    /\ upsert[w].prev # <<>>
    /\ upsert[w].prev[1].records = upsert[w].records

\* C16: upserting the same batch a second time, with no write in between,
\* returns upserted_count = batch size and zero for new_count, changed_count
\* and alert_count.
C16_SecondUpsertIsQuiet ==
    \A w \in DOMAIN upsert :
        Repeats(w) =>
            upsert[w].result = PersistResult(Len(upsert[w].records), 0, 0, 0)

----------------------------------------------------------------------------
(* The token of the KVCA client: KVCAAuthManager._get_valid_token *)

\* Bounds: kvca_token_skew_seconds and the lifetime of a token, in ticks.
TokenSkew == 1
TokenLife == 3

Coroutines == {"c1", "c2", "c3"}

NoToken == [id |-> 0, expires_at |-> 0, stored |-> FALSE]

\* The lifetimes the login endpoint may grant: within the skew, or beyond.
TokenLives == {TokenSkew, TokenLife}

\* _is_expiring_soon
IsExpiringSoon(token) == clock + TokenSkew >= token.expires_at

NoCaller == [pc |-> "idle", result |-> NoToken, logged_in |-> FALSE,
             waited |-> FALSE]

\* The first test of _get_valid_token.
HasValidToken(token) == token.stored /\ ~IsExpiringSoon(token)

MustLogin_Always(token) == TRUE

\* The test made once the guard is held.
MustLogin(token) == ~token.stored \/ IsExpiringSoon(token)

AuthFrame == UNCHANGED <<leaseVars, syncVars, outboxVars, persistVars, retry, serviceVars>>

\* A coroutine calls _get_valid_token: it returns the stored token or goes for
\* the guard.
GetValidToken(c) ==
    /\ caller[c].pc = "idle"
    /\ caller' = [caller EXCEPT ![c] =
                    IF HasValidToken(auth.token)
                    THEN [@ EXCEPT !.pc = "returned", !.result = auth.token]
                    ELSE [@ EXCEPT !.pc = "acquire",
                                   !.waited = auth.lock # "none"]]
    /\ UNCHANGED <<clock, auth>>
    /\ AuthFrame

\* async with self._lock: entered when no coroutine holds the guard.
AcquireGuard(c) ==
    /\ caller[c].pc = "acquire"
    /\ auth.lock = "none"
    /\ auth' = [auth EXCEPT !.lock = c]
    /\ caller' = [caller EXCEPT ![c].pc = "recheck"]
    /\ UNCHANGED clock
    /\ AuthFrame

\* The test under the guard: start the login request, or leave the guard and
\* return the stored token.
Recheck(c) ==
    /\ caller[c].pc = "recheck"
    /\ IF MustLogin(auth.token)
       THEN /\ auth' = [auth EXCEPT !.logins = @ + 1]
            /\ caller' = [caller EXCEPT ![c].pc = "login",
                                        ![c].logged_in = TRUE]
       ELSE /\ auth' = [auth EXCEPT !.lock = "none"]
            /\ caller' = [caller EXCEPT ![c].pc = "returned",
                                        ![c].result = auth.token]
    /\ UNCHANGED clock
    /\ AuthFrame

\* The login request answers: the token is stored and returned, or the
\* request failed and the exception leaves the guard.
LoginReturns(c) ==
    /\ caller[c].pc = "login"
    /\ \E outcome \in StoreOutcomes, life \in TokenLives :
          IF outcome = "ok"
          THEN LET token == [id |-> auth.logins, expires_at |-> clock + life,
                             stored |-> TRUE]
               IN  /\ auth' = [auth EXCEPT !.token = token, !.lock = "none"]
                   /\ caller' = [caller EXCEPT ![c].pc = "returned",
                                               ![c].result = token]
          ELSE /\ auth' = [auth EXCEPT !.lock = "none"]
               /\ caller' = [caller EXCEPT ![c].pc = "raised"]
    /\ UNCHANGED clock
    /\ AuthFrame

\* No token stored, or one left by an earlier login that expires within the
\* skew.
InitAuth ==
    /\ InitCallers({})
    /\ sheet_outbox = <<>>
    /\ notification_outbox = <<>>
    /\ pass = <<>>
    /\ NoPersist
    /\ NoRetry
    /\ NoService
    /\ \E token \in {NoToken,
                     [id |-> 0, expires_at |-> TokenSkew, stored |-> TRUE]} :
          auth = [token |-> token, lock |-> "none", logins |-> 0]
    /\ caller = [c \in Coroutines |-> NoCaller]

NextAuth ==
    \/ Tick
    \/ \E c \in Coroutines : GetValidToken(c)
    \/ \E c \in Coroutines : AcquireGuard(c)
    \/ \E c \in Coroutines : Recheck(c)
    \/ \E c \in Coroutines : LoginReturns(c)

SpecAuth == InitAuth /\ [][NextAuth]_vars

\* C20: of the callers that find no usable token one logs in at a time, and
\* while the token a login stored is usable no further login is made: the
\* callers that waited for the guard return that token without logging in.
C20_SingleFlightLogin ==
    /\ Cardinality({c \in DOMAIN caller : caller[c].pc = "login"}) <= 1
    /\ HasValidToken(auth.token) =>
          /\ auth.logins = auth.token.id
          /\ Cardinality({c \in DOMAIN caller : caller[c].logged_in})
                = auth.logins
    /\ \A c \in DOMAIN caller :
          caller[c].pc = "returned" =>
              caller[c].result.stored /\ caller[c].result.id >= 1

\* All three callers found no token; one logged in, the others waited for the
\* guard and returned its token.
C20_Witness ==
    /\ auth.logins = 1
    /\ \A c \in DOMAIN caller :
          caller[c].pc = "returned" /\ caller[c].result = auth.token
    /\ Cardinality({c \in DOMAIN caller : caller[c].logged_in}) = 1
    /\ Cardinality({c \in DOMAIN caller : caller[c].waited}) = 2

----------------------------------------------------------------------------
(* The source client: KVCAClient._request_json and KVCAAuthManager.force_relogin *)

\* The coroutines that run one _request_json call each on the one client.
Operations == {"o1", "o2"}

\* Status codes the source answers a request with.
Statuses == {200, 401, 409, 503}

\* httpx: Response.is_success, the test of raise_for_status.
IsSuccess(status) == status \div 100 = 2

NoRequest == [pc |-> "get_auth_header", posts |-> 0, relogins |-> 0,
              first |-> 0, second |-> 0, login_failed |-> FALSE, raised |-> 0]

Retries_AnyError(status, kvca_retry_on_401) ==
    ~IsSuccess(status) /\ kvca_retry_on_401

\* if response.status_code == 401 and self._settings.kvca_retry_on_401
Retries(status, kvca_retry_on_401) == status = 401 /\ kvca_retry_on_401

ClientFrame == UNCHANGED <<leaseVars, syncVars, outboxVars, persistVars,
                           caller, retry, traversal, applied>>

\* _login: the login request is answered with a token of some lifetime, or
\* raise_for_status raises.
Login(outcome, life) ==
    IF outcome = "ok"
    THEN [id |-> auth.logins + 1, expires_at |-> clock + life, stored |-> TRUE]
    ELSE NoToken

\* headers = await self._auth.get_auth_header(), before the first POST and
\* before the second: the stored token, or under the guard a login that is
\* stored, or a login that raises.
get_auth_header(o) ==
    /\ request.of[o].pc \in {"get_auth_header", "get_auth_header_again"}
    /\ LET post == IF request.of[o].pc = "get_auth_header"
                   THEN "post" ELSE "post_again"
       IN  IF HasValidToken(auth.token)
           THEN /\ request' = [request EXCEPT !.of[o].pc = post]
                /\ auth' = auth
           ELSE /\ auth.lock = "none"
                /\ \E outcome \in StoreOutcomes, life \in TokenLives :
                      IF outcome = "ok"
                      THEN /\ auth' = [auth EXCEPT !.token = Login(outcome, life),
                                                   !.logins = @ + 1]
                           /\ request' = [request EXCEPT !.of[o].pc = post]
                      ELSE /\ auth' = [auth EXCEPT !.logins = @ + 1]
                           /\ request' = [request EXCEPT
                                   !.of[o].pc = "raised",
                                   !.of[o].login_failed = TRUE]
    /\ UNCHANGED clock
    /\ ClientFrame

\* response.raise_for_status(); return response.json()
RaiseForStatus(r, status) ==
    IF IsSuccess(status)
    THEN [r EXCEPT !.pc = "returned"]
    ELSE [r EXCEPT !.pc = "raised", !.raised = status]

\* response = await self._http.post(path, json=payload, headers=headers): the
\* first POST, then the test for the retry.
Post(o) ==
    /\ request.of[o].pc = "post"
    /\ \E status \in Statuses :
          LET r == [request.of[o] EXCEPT !.posts = @ + 1, !.first = status]
          IN  request' = [request EXCEPT !.of[o] =
                  IF Retries(status, request.kvca_retry_on_401)
                  THEN [r EXCEPT !.pc = "force_relogin"]
                  ELSE RaiseForStatus(r, status)]
    /\ UNCHANGED <<clock, auth>>
    /\ ClientFrame

\* await self._auth.force_relogin(): under the guard the token is dropped and
\* the result of _login stored; a login that raises leaves no token.
force_relogin(o) ==
    /\ request.of[o].pc = "force_relogin"
    /\ auth.lock = "none"
    /\ \E outcome \in StoreOutcomes, life \in TokenLives :
          /\ auth' = [auth EXCEPT !.token = Login(outcome, life),
                                  !.logins = @ + 1]
          /\ request' = [request EXCEPT
                  !.of[o].relogins = @ + 1,
                  !.of[o].pc = IF outcome = "ok" THEN "get_auth_header_again"
                                                 ELSE "raised",
                  !.of[o].login_failed = outcome # "ok"]
    /\ UNCHANGED clock
    /\ ClientFrame

\* The second POST of the same request, and raise_for_status on its response.
PostAgain(o) ==
    /\ request.of[o].pc = "post_again"
    /\ \E status \in Statuses :
          request' = [request EXCEPT !.of[o] =
              RaiseForStatus([@ EXCEPT !.posts = @ + 1, !.second = status],
                             status)]
    /\ UNCHANGED <<clock, auth>>
    /\ ClientFrame

\* A client with either setting of KVCA_RETRY_ON_401, holding no token or one
\* that expires within the skew.
InitClient ==
    /\ InitCallers({})
    /\ sheet_outbox = <<>>
    /\ notification_outbox = <<>>
    /\ pass = <<>>
    /\ NoPersist
    /\ NoRetry
    /\ caller = <<>>
    /\ traversal = <<>>
    /\ applied = <<>>
    /\ \E token \in {NoToken,
                     [id |-> 0, expires_at |-> TokenSkew, stored |-> TRUE]} :
          auth = [token |-> token, lock |-> "none", logins |-> 0]
    /\ \E kvca_retry_on_401 \in BOOLEAN :
          request = [kvca_retry_on_401 |-> kvca_retry_on_401,
                     of |-> [o \in Operations |-> NoRequest]]

NextClient ==
    \/ Tick
    \/ \E o \in Operations : get_auth_header(o)
    \/ \E o \in Operations : Post(o)
    \/ \E o \in Operations : force_relogin(o)
    \/ \E o \in Operations : PostAgain(o)

SpecClient == InitClient /\ [][NextClient]_vars

\* The operation is over: it returned the body or raised.
Over(r) == r.pc \in {"returned", "raised"}

\* The first POST was answered 401 on a client that retries on 401.
Expired(r) == r.first = 401 /\ request.kvca_retry_on_401

\* C21 as stated: a 401 to the first POST of a retrying client is followed by
\* one forceRelogin and one further POST; otherwise the operation makes one
\* POST; the last response, when not 2xx, is raised.
C21_RetryAlwaysPostsAgain ==
    \A o \in Operations :
        LET r == request.of[o]
        IN  Over(r) /\ r.posts >= 1 =>
               IF Expired(r)
               THEN r.relogins = 1 /\ r.posts = 2
               ELSE r.relogins = 0 /\ r.posts = 1

\* C21, amended: an operation makes at most two POSTs and one forceRelogin.
\* A 401 to the first POST of a retrying client is followed by exactly one
\* forceRelogin and, unless a login then raised, by exactly one further POST,
\* whose response is raised when it is not 2xx (another 401 included).  On a
\* client that does not retry, or after any other first status, there is one
\* POST and no forceRelogin, and a non-2xx status is raised at once.
C21_OneReloginOneRetry ==
    \A o \in Operations :
        LET r == request.of[o]
        IN  /\ r.posts <= 2 /\ r.relogins <= 1
            /\ r.relogins = 1 => r.posts >= 1 /\ Expired(r)
            /\ Over(r) /\ r.posts >= 1 =>
                  IF Expired(r)
                  THEN /\ r.relogins = 1
                       /\ IF r.login_failed
                          THEN r.posts = 1 /\ r.raised = 0
                          ELSE /\ r.posts = 2
                               /\ r.raised = IF IsSuccess(r.second)
                                             THEN 0 ELSE r.second
                               /\ (r.pc = "returned") = IsSuccess(r.second)
                  ELSE /\ r.relogins = 0 /\ r.posts = 1 /\ r.second = 0
                       /\ r.raised = IF IsSuccess(r.first) THEN 0 ELSE r.first
                       /\ (r.pc = "returned") = IsSuccess(r.first)

\* One operation was answered 401 twice and raised the second 401 after one
\* forceRelogin; the other was answered 503 and raised it after one POST.
C21_Witness ==
    /\ request.kvca_retry_on_401
    /\ \E o \in Operations :
          LET r == request.of[o]
          IN  /\ r.pc = "raised" /\ r.first = 401 /\ r.second = 401
              /\ r.raised = 401 /\ r.posts = 2 /\ r.relogins = 1
    /\ \E o \in Operations :
          LET r == request.of[o]
          IN  r.pc = "raised" /\ r.first = 503 /\ r.posts = 1 /\ r.relogins = 0

----------------------------------------------------------------------------
(* One sync request: POST /jobs/enrolment-sync and the traversal of sync *)

\* a1 calls EnrolmentSyncService.sync with the arguments of its signature; b1
\* is a request to POST /jobs/enrolment-sync served by another worker process.
SyncCallers == {"a1"}
EndpointCallers == {"b1"}

\* The ids of the categories the source lists; each has one course.
SourceCategories == <<1, 2>>

\* The rows of each course's status list.
MaxRows == 2

\* How a call to the source fails: an HTTPStatusError with status 409 or 503,
\* or an error that is no HTTPStatusError.
SourceErrors == {"http_409", "http_503", "timeout"}

\* The answers to fetch_enrolment_user_info: a detail, an empty body, an error.
DetailAnswers == {"ok", "empty"} \cup SourceErrors

NoResponse == [status |-> 0, detail |-> "none"]

\* sync's locals: the cursor of its loops, source_records and the counters of
\* summary; with them which calls failed, and for a request the response.
NoTraversal(category_id, max_categories, max_users_per_course) ==
    [category_id |-> category_id, max_categories |-> max_categories,
     max_users_per_course |-> max_users_per_course,
     at |-> "categories", categories |-> <<>>, ci |-> 1, rows |-> <<>>, ri |-> 1,
     source_records |-> <<>>,
     failed_course_calls |-> 0, failed_detail_calls |-> 0, details_processed |-> 0,
     course_conflicts |-> {}, detail_failures |-> {}, fatal |-> "none",
     lease_held |-> FALSE, response |-> NoResponse]

\* ids[:max_categories], rows[:max_users_per_course]; 0 stands for None.
Truncate(list, limit) ==
    IF limit = 0 THEN list ELSE SubSeq(list, 1, Min(limit, Len(list)))

\* The parameters of sync, none of which has a default.
SyncParameters == {"category_id", "max_categories", "max_users_per_course",
                   "lock_ttl_seconds"}

\* The keyword arguments run_enrolment_sync passes to sync.
EndpointSyncKeywords == {"category_id", "trigger_type", "max_categories",
                         "max_users_per_course", "lock_ttl_seconds"}

\* A call with a keyword that names no parameter raises TypeError.
KeywordsAccepted(parameters, given) == given \subseteq parameters

\* The except clauses of run_enrolment_sync: RuntimeError with 'job_lock
\* active' in its message, any other exception, and the return.
HttpAnswer(e) ==
    CASE e = "none" -> [status |-> 200, detail |-> "ok"]
      [] e = "lock_conflict" -> [status |-> 409, detail |-> e]
      [] OTHER -> [status |-> 500, detail |-> e]

RunFrame == UNCHANGED <<outboxVars, persistVars, authVars, retry, request, applied>>

\* run_enrolment_sync: the call of service.sync and, once sync is over, the
\* response.
run_enrolment_sync(i) ==
    /\ pc[i] \in {"idle", "returned", "raised"}
    /\ IF pc[i] = "idle"
       THEN IF /\ CallBinds(SyncParameters, EndpointSyncKeywords)
               /\ KeywordsAccepted(SyncParameters, EndpointSyncKeywords)
            THEN /\ pc' = [pc EXCEPT ![i] = "insert"]
                 /\ now' = [now EXCEPT ![i] = clock]
                 /\ exc' = exc
                 /\ traversal' = [traversal EXCEPT ![i].lease_held =
                        \E r \in job_lock : /\ r.locked_by # lock_owner(i)
                                            /\ r.lock_expires_at > clock]
            ELSE /\ pc' = [pc EXCEPT ![i] = "answered"]
                 /\ now' = now
                 /\ exc' = [exc EXCEPT ![i] = "type_error"]
                 /\ traversal' = [traversal EXCEPT
                        ![i].response = HttpAnswer("type_error"),
                        ![i].lease_held =
                            \E r \in job_lock : /\ r.locked_by # lock_owner(i)
                                                /\ r.lock_expires_at > clock]
       ELSE /\ pc' = [pc EXCEPT ![i] = "answered"]
            /\ traversal' = [traversal EXCEPT ![i].response = HttpAnswer(exc[i])]
            /\ UNCHANGED <<now, exc>>
    /\ UNCHANGED <<clock, job_lock, lock_version, lock_acquired, acq, rel, syncVars>>
    /\ RunFrame

\* Mutant: the error ends the loops and the records built so far are persisted.
Fatal_Persists(i, e) ==
    /\ pc' = [pc EXCEPT ![i] = "upsert"]
    /\ exc' = exc
    /\ run' = [run EXCEPT ![i].effects = @ \cup {"source_api"}]

\* A call to the source inside the try block raised e: the handler is entered.
Fatal(i, e) ==
    /\ Except(i, e)
    /\ run' = [run EXCEPT ![i].effects = @ \cup {"source_api"}, ![i].body = e]

\* The traversal goes on inside the try block.
GoOn(i) ==
    /\ UNCHANGED <<pc, exc>>
    /\ run' = [run EXCEPT ![i].effects = @ \cup {"source_api"}]

\* categories = await self._resolve_categories(category_id, max_categories)
ResolveCategories(i) ==
    /\ pc[i] = "traverse"
    /\ traversal[i].at = "categories"
    /\ LET t == traversal[i]
       IN  IF t.category_id # 0
           THEN /\ traversal' = [traversal EXCEPT ![i].categories = <<t.category_id>>,
                                                  ![i].at = "courses"]
                /\ UNCHANGED <<pc, exc, run>>
           ELSE \E answer \in {"ok"} \cup SourceErrors :
                   IF answer = "ok"
                   THEN /\ traversal' = [traversal EXCEPT
                               ![i].categories =
                                   Truncate(SourceCategories, t.max_categories),
                               ![i].at = "courses"]
                        /\ GoOn(i)
                   ELSE /\ traversal' = [traversal EXCEPT ![i].fatal = answer]
                        /\ Fatal(i, answer)
    /\ UNCHANGED <<clock, job_lock, lock_version, now, lock_acquired, acq, rel, run_log>>
    /\ RunFrame

\* for term_id in categories: courses = await fetch_courses_by_category(term_id),
\* where HTTPStatusError with status 409 is counted and the category skipped;
\* after the last category the loop is left for upsert_source_records.
FetchCourses(i) ==
    /\ pc[i] = "traverse"
    /\ traversal[i].at = "courses"
    /\ LET t == traversal[i]
       IN  IF t.ci > Len(t.categories)
           THEN /\ traversal' = [traversal EXCEPT ![i].at = "done"]
                /\ pc' = [pc EXCEPT ![i] = "upsert"]
                /\ UNCHANGED <<exc, run>>
           ELSE \E answer \in {"ok"} \cup SourceErrors :
                   CASE answer = "ok" ->
                          /\ traversal' = [traversal EXCEPT ![i].at = "rows"]
                          /\ GoOn(i)
                     [] answer = "http_409" ->
                          /\ traversal' = [traversal EXCEPT
                                 ![i].failed_course_calls = @ + 1,
                                 ![i].course_conflicts = @ \cup {t.categories[t.ci]},
                                 ![i].ci = @ + 1]
                          /\ GoOn(i)
                     [] OTHER ->
                          /\ traversal' = [traversal EXCEPT ![i].fatal = answer]
                          /\ Fatal(i, answer)
    /\ UNCHANGED <<clock, job_lock, lock_version, now, lock_acquired, acq, rel, run_log>>
    /\ RunFrame

\* rows = await self._client.fetch_class_status_all(course_id), cut to
\* max_users_per_course; no except clause but the outer one.
FetchStatus(i) ==
    /\ pc[i] = "traverse"
    /\ traversal[i].at = "rows"
    /\ \E answer \in {"ok"} \cup SourceErrors :
          IF answer = "ok"
          THEN /\ traversal' = [traversal EXCEPT
                      ![i].rows = Truncate([u \in 1..MaxRows |-> u],
                                           traversal[i].max_users_per_course),
                      ![i].ri = 1,
                      ![i].at = "row"]
               /\ GoOn(i)
          ELSE /\ traversal' = [traversal EXCEPT ![i].fatal = answer]
               /\ Fatal(i, answer)
    /\ UNCHANGED <<clock, job_lock, lock_version, now, lock_acquired, acq, rel, run_log>>
    /\ RunFrame

SourceRecord(source_type, term_id, user_id) ==
    [source_type |-> source_type, term_id |-> term_id, user_id |-> user_id]

SafeFetchDetail_Uncounted(t, answer) ==
    [detail |-> answer = "ok", failed_detail_calls |-> t.failed_detail_calls]

\* _safe_fetch_detail: the detail, or {} with failed_detail_calls increased
\* when the call raised.
SafeFetchDetail(t, answer) ==
    [detail |-> answer = "ok",
     failed_detail_calls |-> IF answer \in SourceErrors
                             THEN t.failed_detail_calls + 1
                             ELSE t.failed_detail_calls]

\* for row in rows: the status record is appended, then the detail is fetched
\* and, when there is one, its record appended; after the last row the course
\* and with it the category are done.
StatusRow(i) ==
    /\ pc[i] = "traverse"
    /\ traversal[i].at = "row"
    /\ LET t == traversal[i]
           term_id == t.categories[t.ci]
       IN  IF t.ri > Len(t.rows)
           THEN traversal' = [traversal EXCEPT ![i].ci = @ + 1, ![i].at = "courses"]
           ELSE \E answer \in DetailAnswers :
                   LET user_id == t.rows[t.ri]
                       fetched == SafeFetchDetail(t, answer)
                       row_record == SourceRecord("enrolment_status", term_id, user_id)
                       detail_record ==
                           SourceRecord("enrolment_user_detail", term_id, user_id)
                   IN  traversal' = [traversal EXCEPT
                           ![i].source_records =
                               IF fetched.detail
                               THEN @ \o <<row_record, detail_record>>
                               ELSE Append(@, row_record),
                           ![i].details_processed =
                               IF fetched.detail THEN @ + 1 ELSE @,
                           ![i].failed_detail_calls = fetched.failed_detail_calls,
                           ![i].detail_failures =
                               IF answer \in SourceErrors
                               THEN @ \cup {<<term_id, user_id>>} ELSE @,
                           ![i].ri = @ + 1]
    /\ GoOn(i)
    /\ UNCHANGED <<clock, job_lock, lock_version, now, lock_acquired, acq, rel, run_log>>
    /\ RunFrame

\* The time the calls arrive at.
Arrival == MaxTime - 2

\* The job_lock table when the calls arrive: empty, or holding the row an
\* earlier run of either worker process left, which expires as they arrive.
EarlierLeases ==
    {{}, {LockRow("worker-A", Arrival - Max(1, LockTtl), LockTtl)},
         {LockRow("worker-B", Arrival - Max(1, LockTtl), LockTtl)}}

\* A sync call with a category or over all categories, with or without the two
\* limits, and a request to the endpoint.
InitRun ==
    /\ clock = Arrival
    /\ job_lock \in EarlierLeases
    /\ lock_version = 0
    /\ run_log = [i \in SyncCallers \cup EndpointCallers |->
                    [status |-> "none", error_message |-> "none", created_alerts |-> 0]]
    /\ pc = [i \in SyncCallers \cup EndpointCallers |-> "idle"]
    /\ now = [i \in SyncCallers \cup EndpointCallers |-> 0]
    /\ lock_acquired = [i \in SyncCallers \cup EndpointCallers |-> "none"]
    /\ exc = [i \in SyncCallers \cup EndpointCallers |-> "none"]
    /\ acq = [i \in SyncCallers \cup EndpointCallers |-> NoAcquire]
    /\ rel = [i \in SyncCallers \cup EndpointCallers |-> NoRelease]
    /\ run = [i \in SyncCallers \cup EndpointCallers |-> NoRun]
    /\ sheet_outbox = <<>>
    /\ notification_outbox = <<>>
    /\ pass = <<>>
    /\ NoPersist
    /\ NoAuth
    /\ NoRetry
    /\ request = <<>>
    /\ applied = <<>>
    /\ \E category_id \in {0, 1}, max_categories \in {0, 1},
          max_users_per_course \in {0, 1} :
          traversal = [i \in SyncCallers \cup EndpointCallers |->
                          NoTraversal(category_id, max_categories,
                                      max_users_per_course)]

NextRun ==
    \/ Tick
    \/ \E i \in EndpointCallers : run_enrolment_sync(i)
    \/ \E i \in SyncCallers : SyncCall(i)
    \/ \E i \in DOMAIN pc : AcquireInsert(i)
    \/ \E i \in DOMAIN pc : AcquireTakeover(i)
    \/ \E i \in DOMAIN pc : AcquireRefresh(i)
    \/ \E i \in DOMAIN pc : SyncLockCheck(i)
    \/ \E i \in DOMAIN pc : start_run(i)
    \/ \E i \in DOMAIN pc : ResolveCategories(i)
    \/ \E i \in DOMAIN pc : FetchCourses(i)
    \/ \E i \in DOMAIN pc : FetchStatus(i)
    \/ \E i \in DOMAIN pc : StatusRow(i)
    \/ \E i \in DOMAIN pc : upsert_source_records(i)
    \/ \E i \in DOMAIN pc : FinishSuccess(i)
    \/ \E i \in DOMAIN pc : FinishFailed(i)
    \/ \E i \in DOMAIN pc : release_job_lock(i)

SpecRun == InitRun /\ [][NextRun]_vars

----------------------------------------------------------------------------
(* Properties of the traversal and of the sync endpoint *)

\* The sync call is over.
SyncOver(i) == pc[i] \in {"returned", "raised"}

\* No call to the source was fatal, the batch was persisted, and no request
\* to the store made while finalizing or releasing failed.
NothingElseFailed(i) ==
    /\ traversal[i].fatal = "none"
    /\ run[i].body = "ok"
    /\ ~run[i].finalize_store_failed
    /\ rel[i].outcome = "ok"

\* The categories whose course list was answered 409 are counted once each
\* and contribute no record.
ConflictsCountedAndSkipped(i) ==
    LET t == traversal[i]
    IN  /\ t.failed_course_calls = Cardinality(t.course_conflicts)
        /\ \A k \in 1..Len(t.source_records) :
              t.source_records[k].term_id \notin t.course_conflicts

\* C22: a course-list call answered 409 adds 1 to failed_course_calls and no
\* record of its category, the traversal goes on with the next category, and
\* the run, if nothing else fails, ends as SUCCESS without raising.
C22_ConflictIsSkippedRunSucceeds ==
    \A i \in SyncCallers :
        /\ ConflictsCountedAndSkipped(i)
        /\ traversal[i].course_conflicts # {} /\ SyncOver(i) /\ NothingElseFailed(i)
              => pc[i] = "returned" /\ run_log[i].status = "SUCCESS"

\* C23: a course-list call that fails with anything but 409, and a status-list
\* call that fails at all, ends the traversal; the run_log row is finalized
\* FAILED, the error is raised to the caller, and finish_run stores the
\* failure alert.
C23_FatalSourceErrorFinalizesFailed ==
    \A i \in SyncCallers :
        LET t == traversal[i]
        IN  /\ t.fatal # "none" => pc[i] # "traverse"
            /\ t.fatal # "none" /\ SyncOver(i) /\ ~run[i].finalize_store_failed
                                /\ rel[i].outcome = "ok"
                  => /\ run_log[i].status = "FAILED"
                     /\ pc[i] = "raised" /\ exc[i] = t.fatal
                     /\ "alert" \in run[i].effects

\* The status and the detail records of source_records for one user of a term.
RecordsOf(t, source_type, key) ==
    {k \in 1..Len(t.source_records) :
        /\ t.source_records[k].source_type = source_type
        /\ t.source_records[k].term_id = key[1]
        /\ t.source_records[k].user_id = key[2]}

\* The step fetched the detail of a row of caller i and the fetch failed.
DetailFails(i) ==
    traversal'[i].detail_failures # traversal[i].detail_failures

\* After the step the same try block runs on, at the next row of the same
\* list, with one more failure counted and one more record in the batch.
NextRow(i) ==
    /\ pc'[i] = "traverse" /\ exc'[i] = exc[i]
    /\ traversal'[i].at = "row"
    /\ traversal'[i].rows = traversal[i].rows
    /\ traversal'[i].ri = traversal[i].ri + 1
    /\ traversal'[i].failed_detail_calls = traversal[i].failed_detail_calls + 1
    /\ Len(traversal'[i].source_records) = Len(traversal[i].source_records) + 1
    /\ traversal'[i].fatal = "none"

\* Every user whose detail fetch failed is counted once, has the status
\* record in the batch and no detail record.
DetailFailuresCounted(i) ==
    LET t == traversal[i]
    IN  /\ t.failed_detail_calls = Cardinality(t.detail_failures)
        /\ \A key \in t.detail_failures :
              /\ Cardinality(RecordsOf(t, "enrolment_status", key)) = 1
              /\ RecordsOf(t, "enrolment_user_detail", key) = {}

\* C24: a failed detail fetch adds exactly 1 to failed_detail_calls, leaves the
\* user's status record in the batch without a detail record, and raises
\* nothing: the traversal goes on with the next row.
C24_DetailFailureIsCountedAndSkipped ==
    /\ [][\A i \in SyncCallers : DetailFails(i) => NextRow(i)]_vars
    /\ [](\A i \in SyncCallers : DetailFailuresCounted(i))

\* The detail of the first user of a course failed, that of the second was
\* fetched, and the traversal reached the end with three records.
C24_Witness ==
    \E i \in SyncCallers :
        LET t == traversal[i]
        IN  /\ t.at = "done" /\ pc[i] = "upsert"
            /\ t.detail_failures = {<<1, 1>>}
            /\ t.failed_detail_calls = 1
            /\ t.details_processed = 1
            /\ Len(t.source_records) = 3

\* C26: the endpoint answers 409 exactly when the run ended because the lease
\* could not be acquired (as it must when another owner's lease is live as the
\* request arrives), 500 with the error text when the run failed otherwise,
\* and ok with the summary exactly when the run succeeded.
C26_EndpointAnswersByOutcome ==
    \A i \in EndpointCallers :
        LET t == traversal[i]
        IN  pc[i] = "answered" =>
               /\ t.response.status \in {200, 409, 500}
               /\ t.response.status = 409 <=> lock_acquired[i] = "False"
               /\ t.lease_held /\ exc[i] # "store_error" => t.response.status = 409
               /\ t.response.status = 200 <=> run_log[i].status = "SUCCESS"
               /\ t.response.status = 500 =>
                     /\ acq[i].writes # <<>>
                     /\ t.response.detail = exc[i]

----------------------------------------------------------------------------
(* Pure functions of storage.py: the run-failure classifier and the severity
   of an enrolment-status alert *)

\* The longest error message, in tokens.
MaxTokens == 2

\* An error message is a sequence of tokens: a phrase in lower or upper case,
\* the head of httpx's HTTPStatusError text ("Client error '404" or "Server
\* error '503"), or a number standing alone.
Phrases == {"job_lock active", "timeout", "timed out", "failed"}

MessageTokens ==
    [kind : {"phrase"}, text : Phrases, upper : BOOLEAN, code : {0}]
        \cup [kind : {"typed"}, text : {"error"}, upper : {FALSE}, code : {404, 409, 503}]
        \cup [kind : {"number"}, text : {"number"}, upper : {FALSE},
              code : {200, 400, 409, 499, 500, 599, 600, 4090}]

\* None, or a text of up to MaxTokens tokens.
ErrorMessages ==
    {[none |-> TRUE, tokens |-> <<>>]}
        \cup {[none |-> FALSE, tokens |-> s] :
                 s \in UNION {[1..n -> MessageTokens] : n \in 0..MaxTokens}}

\* (error_message or "").lower()
LowerText(error_message) ==
    [k \in DOMAIN error_message.tokens |->
        [error_message.tokens[k] EXCEPT !.upper = FALSE]]

\* "<phrase>" in text
InText(phrase, text) ==
    \E k \in DOMAIN text :
        text[k].kind = "phrase" /\ text[k].text = phrase /\ ~text[k].upper

\* The first position of the text at which a regular expression matches, 0
\* when it matches nowhere.
Search(matches) == IF matches = {} THEN 0 ELSE CHOOSE k \in matches : \A j \in matches : k <= j

\* [45]\d{2} between word boundaries: a number of three digits that begins
\* with 4 or 5.
IsStatusText(code) == 400 <= code /\ code <= 599

\* _extract_http_status_code; 0 stands for None.
ExtractHttpStatusCode(error_message) ==
    LET tokens == error_message.tokens
        typed_match == Search({k \in DOMAIN tokens :
                                  tokens[k].kind = "typed" /\ IsStatusText(tokens[k].code)})
        fallback_match == Search({k \in DOMAIN tokens :
                                     /\ tokens[k].kind \in {"typed", "number"}
                                     /\ IsStatusText(tokens[k].code)})
    IN  IF error_message.none \/ tokens = <<>> THEN 0
        ELSE IF typed_match # 0 THEN tokens[typed_match].code
        ELSE IF fallback_match # 0 THEN tokens[fallback_match].code
        ELSE 0

ClassifyRunFailure_TimeoutFirst(error_message) ==
    LET text == LowerText(error_message)
        status_code == ExtractHttpStatusCode(error_message)
    IN  IF InText("job_lock active", text) THEN <<"LOCK_CONFLICT", 409>>
        ELSE IF InText("timeout", text) \/ InText("timed out", text)
             THEN <<"TIMEOUT", 0>>
        ELSE IF status_code = 409 THEN <<"HTTP_409", status_code>>
        ELSE IF status_code # 0 /\ 500 <= status_code /\ status_code <= 599
             THEN <<"HTTP_5XX", status_code>>
        ELSE IF status_code # 0 /\ 400 <= status_code /\ status_code <= 499
             THEN <<"HTTP_4XX", status_code>>
        ELSE <<"UNKNOWN", status_code>>

\* _classify_run_failure
ClassifyRunFailure(error_message) ==
    LET text == LowerText(error_message)
        status_code == ExtractHttpStatusCode(error_message)
    IN  IF InText("job_lock active", text) THEN <<"LOCK_CONFLICT", 409>>
        ELSE IF status_code = 409 THEN <<"HTTP_409", status_code>>
        ELSE IF status_code # 0 /\ 500 <= status_code /\ status_code <= 599
             THEN <<"HTTP_5XX", status_code>>
        ELSE IF status_code # 0 /\ 400 <= status_code /\ status_code <= 499
             THEN <<"HTTP_4XX", status_code>>
        ELSE IF InText("timeout", text) \/ InText("timed out", text)
             THEN <<"TIMEOUT", 0>>
        ELSE <<"UNKNOWN", status_code>>

\* _determine_failure_severity
DetermineFailureSeverity(error_group) ==
    IF error_group \in {"HTTP_5XX", "TIMEOUT"} THEN "high"
    ELSE IF error_group \in {"HTTP_409", "HTTP_4XX"} THEN "medium"
    ELSE IF error_group = "LOCK_CONFLICT" THEN "low"
    ELSE "medium"

FunctionFrame == UNCHANGED <<leaseVars, syncVars, outboxVars, persistVars, authVars,
                             retry, request, traversal>>

\* _build_run_failure_alert: the group, the status and the severity it puts
\* into the alert of a failed run.
BuildRunFailureAlert ==
    /\ applied.fn = "_build_run_failure_alert"
    /\ ~applied.done
    /\ LET classified == ClassifyRunFailure(applied.arg)
       IN  applied' = [applied EXCEPT
               !.done = TRUE,
               !.result = [error_group |-> classified[1],
                           http_status_code |-> classified[2],
                           severity |-> DetermineFailureSeverity(classified[1])]]
    /\ FunctionFrame

\* The values of a record's gc_date and sjc_date: None, or a text that may be
\* padded with white space around nothing, around the sentinel in either
\* case, or around a timestamp.
TimestampValues ==
    {[none |-> TRUE, padded |-> FALSE, body |-> ""]}
        \cup [none : {FALSE}, padded : BOOLEAN,
              body : {"", "empty", "EMPTY", "2024-05-01T09:00:00+09:00"}]

\* value.strip()
Strip(value) == [value EXCEPT !.padded = FALSE]

\* text.lower()
Lower(body) == IF body = "EMPTY" THEN "empty" ELSE body

\* _is_truthy_timestamp
IsTruthyTimestamp(value) ==
    IF value.none THEN FALSE
    ELSE LET text == Strip(value)
         IN  IF text.body = "" THEN FALSE
             ELSE Lower(text.body) # "empty"

DetermineSeverity_StatusFirst(alert_type, status, is_paid, is_doc_ready) ==
    IF status = "DS" THEN "low"
    ELSE IF alert_type = "CHANGED" /\ (is_paid \/ is_doc_ready) THEN "high"
    ELSE IF alert_type = "NEW" /\ (is_paid \/ is_doc_ready) THEN "medium"
    ELSE "medium"

\* _determine_severity
DetermineSeverity(alert_type, status, is_paid, is_doc_ready) ==
    IF alert_type = "CHANGED" /\ (is_paid \/ is_doc_ready) THEN "high"
    ELSE IF alert_type = "NEW" /\ (is_paid \/ is_doc_ready) THEN "medium"
    ELSE IF status = "DS" THEN "low"
    ELSE "medium"

\* The records _build_alert_rows is given one at a time, and what diff holds
\* for the record's key.
SeverityInputs ==
    [source_type : SourceTypes, source_id : SourceIds, status : {"None", "DS", "GC"},
     gc_date : TimestampValues, sjc_date : TimestampValues,
     diff : {"NEW", "CHANGED", "UNCHANGED"}]

\* The body of the loop of _build_alert_rows for one record: no row for a
\* record that is no enrolment_status record or is neither NEW nor CHANGED.
SeverityAlertRows(record) ==
    IF record.source_type # "enrolment_status" THEN <<>>
    ELSE IF record.diff \notin {"NEW", "CHANGED"} THEN <<>>
    ELSE LET is_paid == IsTruthyTimestamp(record.gc_date)
             is_doc_ready == IsTruthyTimestamp(record.sjc_date)
         IN  <<[source_type |-> record.source_type, source_id |-> record.source_id,
                alert_type |-> record.diff,
                severity |-> DetermineSeverity(record.diff, record.status,
                                               is_paid, is_doc_ready),
                is_paid |-> is_paid, is_doc_ready |-> is_doc_ready]>>

\* _build_alert_rows([record], diff)
BuildSeverityAlertRows ==
    /\ applied.fn = "_build_alert_rows"
    /\ ~applied.done
    /\ applied' = [applied EXCEPT !.done = TRUE,
                                  !.result = SeverityAlertRows(applied.arg)]
    /\ FunctionFrame

\* A function is about to be applied to one of its arguments.
InitFunctions ==
    /\ InitCallers({})
    /\ sheet_outbox = <<>>
    /\ notification_outbox = <<>>
    /\ pass = <<>>
    /\ NoPersist
    /\ NoAuth
    /\ NoRetry
    /\ request = <<>>
    /\ traversal = <<>>
    /\ \/ \E error_message \in ErrorMessages :
             applied = [fn |-> "_build_run_failure_alert", arg |-> error_message,
                        done |-> FALSE, result |-> <<>>]
       \/ \E record \in SeverityInputs :
             applied = [fn |-> "_build_alert_rows", arg |-> record,
                        done |-> FALSE, result |-> <<>>]

NextFunctions ==
    \/ BuildRunFailureAlert
    \/ BuildSeverityAlertRows

SpecFunctions == InitFunctions /\ [][NextFunctions]_vars

\* The failure alert of an error message has been built.
Classified == applied.fn = "_build_run_failure_alert" /\ applied.done

\* The message contains the phrase, in either case.
Mentions(phrase) ==
    \E k \in DOMAIN applied.arg.tokens :
        applied.arg.tokens[k].kind = "phrase" /\ applied.arg.tokens[k].text = phrase

\* The claim's rules in their order, each with its group; the last always
\* applies.
FailureRules ==
    LET status == ExtractHttpStatusCode(applied.arg)
    IN  << <<Mentions("job_lock active"), "LOCK_CONFLICT">>,
           <<status = 409, "HTTP_409">>,
           <<status \in 500..599, "HTTP_5XX">>,
           <<status \in 400..499, "HTTP_4XX">>,
           <<Mentions("timeout") \/ Mentions("timed out"), "TIMEOUT">>,
           <<TRUE, "UNKNOWN">> >>

\* The group of the first rule that applies.
FirstRule ==
    LET k == CHOOSE k \in DOMAIN FailureRules :
                 /\ FailureRules[k][1]
                 /\ \A j \in 1..(k - 1) : ~FailureRules[j][1]
    IN  FailureRules[k][2]

\* The claim's severity of each group.
FailureSeverities ==
    [g \in {"LOCK_CONFLICT", "HTTP_409", "HTTP_5XX", "HTTP_4XX", "TIMEOUT", "UNKNOWN"} |->
        CASE g \in {"HTTP_5XX", "TIMEOUT"} -> "high"
          [] g = "LOCK_CONFLICT" -> "low"
          [] OTHER -> "medium"]

\* C25: the classifier gives an error message the group of the first rule, in
\* the claim's order, that applies to it, and the alert the severity of that
\* group.
C25_FirstRuleDecidesGroup ==
    Classified =>
        /\ applied.result.error_group = FirstRule
        /\ applied.result.severity = FailureSeverities[applied.result.error_group]

\* A message that mentions a timeout and carries the number 500 is HTTP_5XX
\* and high, the status rule coming before the timeout rule.
C25_Witness ==
    /\ Classified
    /\ Mentions("timeout")
    /\ ExtractHttpStatusCode(applied.arg) = 500
    /\ applied.result.error_group = "HTTP_5XX"
    /\ applied.result.severity = "high"

\* The alert rows of an enrolment_status record that is NEW or CHANGED have
\* been built.
Alerted ==
    /\ applied.fn = "_build_alert_rows" /\ applied.done
    /\ applied.arg.source_type = "enrolment_status"
    /\ applied.arg.diff \in {"NEW", "CHANGED"}

\* The claim's test of a date: present, not blank, not the sentinel (in
\* either case).
DateSet(value) ==
    /\ ~value.none
    /\ value.body # ""
    /\ value.body \notin {"empty", "EMPTY"}

\* The claim's decision table.
SeverityTable(record) ==
    LET flagged == DateSet(record.gc_date) \/ DateSet(record.sjc_date)
    IN  CASE record.diff = "CHANGED" /\ flagged -> "high"
          [] record.diff = "NEW" /\ flagged -> "medium"
          [] ~flagged /\ record.status = "DS" -> "low"
          [] OTHER -> "medium"

\* C28: the one alert row of a NEW or CHANGED enrolment_status record has the
\* severity of the decision table and the flags paid and doc-ready exactly
\* when gc_date and sjc_date are present, not blank and not the sentinel; a
\* NEW record with status DS and sentinel dates has severity low and no flag.
C28_SeverityByTable ==
    Alerted =>
        /\ Len(applied.result) = 1
        /\ applied.result[1].severity = SeverityTable(applied.arg)
        /\ applied.result[1].is_paid = DateSet(applied.arg.gc_date)
        /\ applied.result[1].is_doc_ready = DateSet(applied.arg.sjc_date)
        /\ /\ applied.arg.diff = "NEW" /\ applied.arg.status = "DS"
           /\ applied.arg.gc_date.body = "empty" /\ applied.arg.sjc_date.body = "empty"
           => /\ applied.result[1].severity = "low"
              /\ ~applied.result[1].is_paid /\ ~applied.result[1].is_doc_ready

\* The row of a NEW record with status DS whose dates are the sentinel.
C28_Witness ==
    /\ Alerted
    /\ applied.arg.diff = "NEW" /\ applied.arg.status = "DS"
    /\ applied.arg.gc_date = [none |-> FALSE, padded |-> FALSE, body |-> "empty"]
    /\ applied.arg.sjc_date = [none |-> FALSE, padded |-> FALSE, body |-> "empty"]
    /\ Len(applied.result) = 1
    /\ applied.result[1].severity = "low"
    /\ ~applied.result[1].is_paid /\ ~applied.result[1].is_doc_ready

----------------------------------------------------------------------------
(* The candidate list of one pass: _fetch_outbox_candidates on a table at rest *)

\* The rows of the table.
FetchRows == 3

\* A row as sync runs, dispatch passes and operators may have left it:
\* PENDING, PROCESSING, SENT, FAILED with no retry time, or FAILED with a
\* retry time.
FetchRowStates(id) ==
    {NewSheetRow(id, created_at) : created_at \in 0..1}
        \cup {[NewSheetRow(id, 0) EXCEPT !.status = "PROCESSING"], Sent(NewSheetRow(id, 0))}
        \cup {[NewSheetRow(id, 0) EXCEPT !.status = "FAILED", !.retry_count = 1,
                                         !.updated_at = updated_at] :
                 updated_at \in 0..1}
        \cup {[FailedOnce(NewSheetRow(id, 0)) EXCEPT !.next_retry_at = next_retry_at] :
                 next_retry_at \in 1..2}

InitFetch ==
    /\ InitCallers({})
    /\ \E table \in [1..FetchRows -> UNION {FetchRowStates(id) : id \in 1..FetchRows}] :
          /\ \A id \in 1..FetchRows : table[id] \in FetchRowStates(id)
          /\ sheet_outbox = table
    /\ notification_outbox = <<>>
    /\ pass = [d \in Dispatchers |-> NoPass]
    /\ NoPersist
    /\ NoAuth
    /\ NoRetry
    /\ NoService

\* One pass is started with or without a batch_size of its own and fetches
\* its candidates; nothing writes to the table meanwhile.
NextFetch ==
    \/ Tick
    \/ \E batch_size \in 0..FetchRows : DispatchAfter("d1", "sheet_outbox", batch_size)
    \/ QueryPending("d1")
    \/ QueryFailedNull("d1")
    \/ QueryFailedDue("d1")

SpecFetch == InitFetch /\ [][NextFetch]_vars

\* The class of a row among the candidates: 1 PENDING, 2 FAILED with no retry
\* time, 3 FAILED with a retry time that has come, 0 no candidate.
CandidateClass(row) ==
    CASE row.status = "PENDING" -> 1
      [] row.status = "FAILED" /\ ~row.retry_scheduled -> 2
      [] row.status = "FAILED" /\ row.retry_scheduled /\ row.next_retry_at <= clock -> 3
      [] OTHER -> 0

\* The column a class is ordered by.
CandidateOrder(row) ==
    CASE row.status = "PENDING" -> row.created_at
      [] row.status = "FAILED" /\ ~row.retry_scheduled -> row.updated_at
      [] OTHER -> row.next_retry_at

\* _fetch_outbox_candidates has returned the list.
HasFetched(d) == pass[d].pc \in {"claim", "done"}

\* C27: the candidate list has at most batchSize rows and no id twice; it
\* holds PENDING rows, then FAILED rows with no retry time, then FAILED rows
\* whose retry time has come, each class in the order of its column and
\* oldest rows first; a row of a later class is in it only if every row of
\* the earlier classes is; and no other row is in it.
C27_CandidatesInClassOrder ==
    \A d \in DOMAIN pass :
        HasFetched(d) =>
            LET rows == pass[d].rows
                table == Table(pass[d].table)
                ids == {rows[k].id : k \in DOMAIN rows}
            IN  /\ Len(rows) <= pass[d].limit
                /\ \A j, k \in DOMAIN rows : j # k => rows[j].id # rows[k].id
                /\ \A k \in DOMAIN rows : CandidateClass(table[rows[k].id]) # 0
                /\ \A j, k \in DOMAIN rows :
                      j < k =>
                         \/ CandidateClass(table[rows[j].id])
                               < CandidateClass(table[rows[k].id])
                         \/ /\ CandidateClass(table[rows[j].id])
                                  = CandidateClass(table[rows[k].id])
                            /\ CandidateOrder(table[rows[j].id])
                                  <= CandidateOrder(table[rows[k].id])
                /\ \A kept \in ids, out \in DOMAIN table \ ids :
                      /\ CandidateClass(table[out]) \in 1..2
                            => CandidateClass(table[kept]) <= CandidateClass(table[out])
                      /\ CandidateClass(table[out]) = CandidateClass(table[kept])
                            => CandidateOrder(table[kept]) <= CandidateOrder(table[out])
                /\ Len(rows) < pass[d].limit =>
                      \A out \in DOMAIN table \ ids : CandidateClass(table[out]) \notin 1..2

\* A pass with room for two rows returned the older of two PENDING rows and
\* then the younger, and left a FAILED row whose time had come.
C27_Witness ==
    \E d \in DOMAIN pass :
        /\ HasFetched(d)
        /\ pass[d].limit = 2
        /\ Len(pass[d].rows) = 2
        /\ LET table == Table(pass[d].table)
               first == table[pass[d].rows[1].id]
               second == table[pass[d].rows[2].id]
           IN  /\ first.status = "PENDING" /\ second.status = "PENDING"
               /\ first.created_at < second.created_at
               /\ \E out \in DOMAIN table : CandidateClass(table[out]) = 3

----------------------------------------------------------------------------
(* The life of a job_lock row *)

\* C29 as stated: a job_lock row exists only while its lease has not expired.
C29_RowOnlyWhileLeaseUnexpired ==
    \A r \in job_lock : ~(r.lock_expires_at < clock)

\* The row is the one caller i's acquire wrote, and i has not deleted it since.
HeldRow(i, r) ==
    /\ lock_acquired[i] = "True"
    /\ r = LockRow(lock_owner(i), now[i], LockTtl)
    /\ rel[i].outcome # "ok"

\* The step is caller i's release_job_lock, accepted by the store.
Released(i) ==
    pc[i] = "release" /\ pc'[i] # "release" /\ rel'[i].outcome = "ok"

\* A row leaves the table only with its owner's release, or when an acquire
\* puts its own row in its place.
RowLeavesByReleaseOrTakeover ==
    \A r \in job_lock \ job_lock' :
        \/ \E i \in DOMAIN pc : Released(i) /\ r.locked_by = lock_owner(i)
        \/ \E i \in DOMAIN pc : /\ pc[i] \in {"takeover", "refresh"}
                                /\ job_lock' = {LockRow(lock_owner(i), now[i], LockTtl)}

\* C29, amended: there is at most one job_lock row, and it is the row some
\* owner's acquire wrote and has not released since; after a graceful release
\* no row of the releasing owner is there; the row of an unreleased lease
\* stays when its TTL elapses, until an acquire takes it over or its owner
\* releases it.
C29_RowFromAcquireUntilRelease ==
    /\ [][RowLeavesByReleaseOrTakeover]_vars
    /\ [](/\ Cardinality(job_lock) <= 1
          /\ \A r \in job_lock : \E i \in DOMAIN pc : HeldRow(i, r)
          /\ \A i \in DOMAIN pc :
                rel[i].outcome = "ok" => OwnRows(rel[i].after, i) = {})

\* The TTL of a lease that was never released has elapsed and its row is
\* still there, while another owner has released gracefully.
C29_Witness ==
    /\ \E i \in DOMAIN pc, r \in job_lock :
          /\ HeldRow(i, r)
          /\ rel[i].outcome = "none" /\ pc[i] = "acquire_returned"
          /\ r.lock_expires_at < clock
    /\ \E j \in DOMAIN pc :
          /\ lock_acquired[j] = "True"
          /\ rel[j].outcome = "ok"
          /\ OwnRows(rel[j].before, j) # {}

----------------------------------------------------------------------------
(* Which records make alerts *)

\* The record of the batch is NEW (no hash was stored for its key) or CHANGED
\* (the stored hash differs from its own).
NewOrChanged(u, i) ==
    \/ Key(u.records[i]) \notin DOMAIN u.existing_hashes
    \/ u.existing_hashes[Key(u.records[i])] # u.records[i].payload_hash

\* C30: every alert candidate of a call is made for an enrolment_status record
\* that is NEW or CHANGED; no alert and no sheet_outbox row is of source type
\* enrolment_user_detail, and new_count and changed_count count
\* enrolment_status records only.
C30_AlertsOnlyForNewOrChangedStatus ==
    /\ \A w \in DOMAIN upsert :
          LET u == upsert[w]
          IN  /\ \A k \in DOMAIN u.candidates :
                    /\ u.records[u.candidates[k].of].source_type = "enrolment_status"
                    /\ NewOrChanged(u, u.candidates[k].of)
              /\ u.result.new_count + u.result.changed_count
                    <= Cardinality({i \in DOMAIN u.records :
                                      u.records[i].source_type = "enrolment_status"})
    /\ \A a \in DOMAIN alert : alert[a].source_type # "enrolment_user_detail"
    /\ \A id \in DOMAIN sheet_outbox :
          sheet_outbox[id].row_key[1] # "enrolment_user_detail"

----------------------------------------------------------------------------
(* The one call of the persistence engine in a sync run *)

\* C31: a sync run calls upsert_source_records at most once and only when the
\* traversal has gone through every category without a fatal error; a run
\* whose traversal was not fatal has called it exactly once when it is over,
\* and a run whose traversal was fatal never calls it and writes no source
\* record and no snapshot, whatever records it had built.
C31_PersistOnceAfterTraversal ==
    \A i \in SyncCallers :
        LET t == traversal[i]
        IN  /\ run[i].persist_calls <= 1
            /\ run[i].persist_calls = 1 =>
                  /\ t.at = "done"
                  /\ t.ci > Len(t.categories)
                  /\ t.fatal = "none"
            /\ t.fatal # "none" =>
                  /\ run[i].persist_calls = 0
                  /\ run[i].effects \cap {"source_record", "snapshot"} = {}
            /\ SyncOver(i) /\ run[i].entered /\ t.fatal = "none" =>
                  run[i].persist_calls = 1

\* The first category gave records, the second one's course list failed with
\* 503, and the run is over without a call of the persistence engine.
C31_Witness ==
    \E i \in SyncCallers :
        LET t == traversal[i]
        IN  /\ SyncOver(i)
            /\ t.fatal = "http_503"
            /\ t.ci = 2
            /\ Len(t.source_records) > 0
            /\ run[i].persist_calls = 0

----------------------------------------------------------------------------
(* How often a run is finalized *)

\* C32: a run calls finish_run at most once, and a run whose traversal and
\* persistence raised nothing is never finalized as FAILED and gets no
\* synthesized failure alert, also when its SUCCESS finalization raises.
C32_FinalizedOnce ==
    \A i \in DOMAIN pc :
        /\ run[i].finish_calls <= 1
        /\ run[i].body = "ok" =>
              /\ run_log[i].status # "FAILED"
              /\ "failure_alert" \notin run[i].effects

----------------------------------------------------------------------------
(* The failure alert of a failed run *)

\* C33: a run that ends by raising out of its try block has had exactly one
\* FAILED alert built by its finalization; the alert is stored, with its
\* sheet_outbox row, exactly when no alert of its key is recent, and the
\* run_log row's created_alerts is the summary's created_alerts plus 1 when it
\* is stored and plus 0 when it is suppressed.  (Runs in which the store
\* refused a request of the finalization are left aside.)
C33_FailedRunBuildsOneFailureAlert ==
    \A i \in DOMAIN pc :
        (pc[i] = "raised" /\ run[i].entered /\ ~run[i].finalize_store_failed) =>
            /\ run[i].failure_candidates = 1
            /\ run[i].failure_alert_count = (IF run[i].failure_recent THEN 0 ELSE 1)
            /\ "failure_alert" \in run[i].effects <=> ~run[i].failure_recent
            /\ run_log[i].status = "FAILED"
            /\ run_log[i].created_alerts
                  = run[i].created_alerts + run[i].failure_alert_count

----------------------------------------------------------------------------
(* A run whose run_log row could not be started *)

\* C34: an invocation that acquired the lease and then failed to start its
\* run_log row has called release_job_lock by the time it raises, and no lease
\* row of its owner is left when the store accepted that delete.
C34_LeaseReleasedWhenStartRunFails ==
    \A i \in DOMAIN pc :
        (pc[i] = "raised" /\ lock_acquired[i] = "True" /\ ~run[i].entered) =>
            /\ rel[i].outcome \in {"ok", "error"}
            /\ rel[i].outcome = "ok" => OwnRows(rel[i].after, i) = {}

----------------------------------------------------------------------------
(* SENT is terminal *)

\* No step changes a row that is SENT.
SentRowStays ==
    [][\A t \in OutboxTables : \A id \in DOMAIN Table(t) :
          Table(t)[id].status = "SENT" =>
              /\ id \in DOMAIN Table(t)'
              /\ Table(t)'[id] = Table(t)[id]]_vars

\* No pass is delivering or marking a row that is SENT.
SentRowNotHeld ==
    \A t \in OutboxTables : \A id \in DOMAIN Table(t) :
        Table(t)[id].status = "SENT" => ~\E d \in DOMAIN pass : Holds(d, t, id)

----------------------------------------------------------------------------
(* Claims of FAILED rows and their retry time *)

\* C36: no step claims a FAILED row whose next_retry_at is still in the
\* future: a row that goes from FAILED to PROCESSING has no retry time or one
\* that has been reached.
C36_NoClaimBeforeRetryTime ==
    [][\A t \in OutboxTables : \A id \in DOMAIN Table(t) :
          (/\ Table(t)[id].status = "FAILED"
           /\ Table(t)'[id].status = "PROCESSING")
              => \/ ~Table(t)[id].retry_scheduled
                 \/ Table(t)[id].next_retry_at <= clock]_vars

----------------------------------------------------------------------------
(* retry_count counts the failed attempts *)

\* C37: retry_count counts the failed attempts of a row: every step that
\* marks a row FAILED adds exactly 1 to the retry_count the row has at that
\* step, and no other step changes it.
C37_RetryCountCountsFailures ==
    [][\A t \in OutboxTables : \A id \in DOMAIN Table(t) :
          IF Table(t)[id].status = "PROCESSING" /\ Table(t)'[id].status = "FAILED"
          THEN Table(t)'[id].retry_count = Table(t)[id].retry_count + 1
          ELSE Table(t)'[id].retry_count = Table(t)[id].retry_count]_vars

----------------------------------------------------------------------------
(* The rows of a pass that has ended *)

\* The pass has returned or raised.
Ended(d) == pass[d].pc \in {"done", "raised"}

\* C38: when a pass has returned or raised, none of the rows it claimed is
\* PROCESSING, unless another pass has claimed the row since and is at work
\* on it.
C38_EndedPassLeavesNoRowProcessing ==
    \A d \in DOMAIN pass :
        Ended(d) => \A id \in pass[d].claimed : ~Stranded(pass[d].table, id)

----------------------------------------------------------------------------
(* A call that failed between its writes *)

\* The call of w raised after it had written the current-state records and
\* before it had enqueued the sheet_outbox rows of its alerts.
FailedAfterUpsert(w) ==
    /\ upsert[w].pc = "raised"
    /\ upsert[w].failed_at \in {"insert_snapshots", "insert_alerts",
                                "row_exists", "post_outbox"}

\* An alert and a sheet_outbox row are stored for the record.
AlertStored(record) ==
    /\ \E a \in DOMAIN alert :
          /\ alert[a].source_type = record.source_type
          /\ alert[a].source_id = record.source_id
          /\ alert[a].detail = record.payload_hash
    /\ \E id \in DOMAIN sheet_outbox :
          /\ sheet_outbox[id].row_key[1] = record.source_type
          /\ sheet_outbox[id].row_key[2] = record.source_id

\* C39: when a call failed after writing its records and before enqueuing its
\* alerts, and a call made after the failure with the same records has
\* returned, an alert and a sheet_outbox row are stored for every
\* enrolment_status record that was NEW or CHANGED in the failed call.
C39_NoChangeLostByPartialFailure ==
    \A w, v \in DOMAIN upsert :
        (/\ FailedAfterUpsert(w)
         /\ upsert[v].pc = "returned"
         /\ w \in upsert[v].after
         /\ upsert[v].records = upsert[w].records)
            => \A i \in DOMAIN upsert[w].records :
                  (/\ upsert[w].records[i].source_type = "enrolment_status"
                   /\ NewOrChanged(upsert[w], i))
                      => AlertStored(upsert[w].records[i])

----------------------------------------------------------------------------
(* The counters a dispatch pass returns *)

\* The pass has returned its OutboxDispatchResult.
Returned(d) == pass[d].pc = "done"

\* picked = processed + skipped, processed = sent + failed, picked <= limit.
CountersAddUp(d) ==
    LET result == pass[d].result
    IN  /\ result.picked = result.processed + result.skipped
        /\ result.processed = result.sent + result.failed
        /\ result.picked <= pass[d].limit

\* A step marks a sheet row SENT only when notification_outbox holds a row
\* for its key.
SentOnlyAfterNotification ==
    [][\A id \in DOMAIN sheet_outbox :
          (sheet_outbox[id].status # "SENT" /\ sheet_outbox'[id].status = "SENT")
              => \E n \in DOMAIN notification_outbox :
                    notification_outbox[n].source_id = sheet_outbox[id].row_key]_vars

\* C40 as stated: the counters of every returned pass add up, and
\* notification_enqueued <= sent.
C40_EnqueuedAtMostSent ==
    \A d \in DOMAIN pass :
        Returned(d) =>
            /\ CountersAddUp(d)
            /\ pass[d].result.notification_enqueued <= pass[d].result.sent

\* C40 as amended: every returned pass has picked = processed + skipped,
\* processed = sent + failed, picked <= its limit and
\* notification_enqueued <= processed; and a sheet row is marked SENT only
\* after a notification_outbox row for its key exists.
C40_CountersOfReturnedPass ==
    /\ [](\A d \in DOMAIN pass :
            Returned(d) =>
                /\ CountersAddUp(d)
                /\ pass[d].result.notification_enqueued <= pass[d].result.processed)
    /\ SentOnlyAfterNotification

\* A pass over sheet_outbox that returned after it had enqueued the
\* notification of a row and then marked that row FAILED, because the store
\* refused to mark it SENT.
C40_Witness ==
    \E d \in DOMAIN pass :
        /\ Returned(d)
        /\ pass[d].table = "sheet_outbox"
        /\ pass[d].result.notification_enqueued = 1
        /\ pass[d].result.sent = 0
        /\ pass[d].result.failed = 1
        /\ pass[d].result.picked = pass[d].limit

====
